---- MODULE Spec2Model ----
(***************************************************************************)
(* Model of the LinkedIn member-listing crawler:                           *)
(*   - the crawl session   (core/linkedin_scraper.py, LinkedInScraper and  *)
(*     core/alumni_osint_pipeline.py, AlumniOSINTPipeline._collect_profiles)*)
(*   - the segmented controllers (scrape_post2022.py, scrape_all_alumni.py)*)
(*   - the image pipeline  (AlumniOSINTPipeline._download_images)          *)
(* Strings that the code inspects character by character (names, file     *)
(* names, cookies) are tuples of one-character strings.                    *)
(***************************************************************************)
EXTENDS Integers, Sequences, FiniteSets, TLC

VARIABLES
    variant,         \* "scraper" (LinkedInScraper) or "pipeline" (AlumniOSINTPipeline)
    li_at,           \* the session cookie as passed by the caller
    max_profiles,    \* self.max_profiles
    max_stale,       \* self.max_stale_rounds
    skip_urls,       \* self._skip_urls
    pc,              \* position in scrape()/_run()
    outcome,         \* how the session ended ("" while running)
    netLog,          \* network actions issued so far (launch, goto, http get)
    voyager_buffer,  \* voyager_buffer, appended by on_response
    consumed,        \* history: for each buffer index, in how many fresh slices it was
    prev_v,          \* prev_v of the current round
    seen_urls,       \* seen_urls of _run
    profiles,        \* profiles / collected
    stale,           \* stale
    round_num,       \* round_num
    clicked,         \* clicked of the current round
    raw,             \* raw / batch of the current round (between the steps of a round)
    roundLog,        \* history: <<records added, clicked>> of every finished round
    files,           \* names of the files present in output_dir
    ctl,             \* state of the segmented controller (a record)
    disk,            \* progress file and completed-segments marker
    dl,              \* state of the image pipeline's download step (a record)
    prs,             \* state of the response parser and its URN cache (a record)
    norm,            \* a target given to _normalize_url and what it returned (a record)
    face             \* a FaceIndex, its index file and the last result (a record)

vars == <<variant, li_at, max_profiles, max_stale, skip_urls, pc, outcome, netLog,
          voyager_buffer, consumed, prev_v, seen_urls, profiles, stale, round_num,
          clicked, raw, roundLog, files, ctl, disk, dl, prs, norm, face>>

sessionVars == <<variant, li_at, max_profiles, max_stale, skip_urls, pc, outcome, netLog,
                 voyager_buffer, consumed, prev_v, seen_urls, profiles, stale, round_num,
                 clicked, raw, roundLog, files>>

(***************************************************************************)
(* Bounds of the model.                                                    *)
(***************************************************************************)
MaxBuffer == 2      \* longest voyager_buffer explored
MaxRounds == 3      \* most rounds of one session explored
MaxCap    == 2      \* largest max_profiles explored
MaxStaleArg == 2    \* largest max_stale_rounds argument explored

(***************************************************************************)
(* Generic sequence helpers.                                               *)
(***************************************************************************)
Min(a, b) == IF a < b THEN a ELSE b
Max(a, b) == IF a > b THEN a ELSE b

\* s[:n]
Take(s, n) == SubSeq(s, 1, Min(Len(s), n))

\* s[n:]  (n is the 0-based start index)
Drop(s, n) == SubSeq(s, n + 1, Len(s))

Range(s) == {s[i] : i \in 1..Len(s)}

(***************************************************************************)
(* Character-level string helpers (str.strip, re.sub, unicodedata).        *)
(***************************************************************************)
IsSpace(c) == c = " "

\* str.lstrip() / str.rstrip() / str.strip()
RECURSIVE LStrip(_)
LStrip(s) == IF s # <<>> /\ IsSpace(Head(s)) THEN LStrip(Tail(s)) ELSE s
RECURSIVE RStrip(_)
RStrip(s) == IF s # <<>> /\ IsSpace(s[Len(s)]) THEN RStrip(SubSeq(s, 1, Len(s) - 1)) ELSE s
Strip(s) == RStrip(LStrip(s))

\* str.strip("_")
RECURSIVE LStripUs(_)
LStripUs(s) == IF s # <<>> /\ Head(s) = "_" THEN LStripUs(Tail(s)) ELSE s
RECURSIVE RStripUs(_)
RStripUs(s) == IF s # <<>> /\ s[Len(s)] = "_" THEN RStripUs(SubSeq(s, 1, Len(s) - 1)) ELSE s
StripUs(s) == RStripUs(LStripUs(s))

\* NFKD decomposition followed by the removal of combining marks
Unaccent(c) == IF c = "é" THEN "e" ELSE c

\* str.casefold() on one character
Casefold(c) == IF c = "A" THEN "a" ELSE IF c = "E" THEN "e" ELSE c

\* re.sub(r"\s+", R, s) with R one character
RECURSIVE CollapseWs(_, _)
CollapseWs(s, R) ==
    IF s = <<>> THEN <<>>
    ELSE IF IsSpace(Head(s))
         THEN <<R>> \o CollapseWs(LStrip(s), R)
         ELSE <<Head(s)>> \o CollapseWs(Tail(s), R)

\* "%d" % n for n >= 0
Digit(n) == CASE n = 0 -> "0" [] n = 1 -> "1" [] n = 2 -> "2" [] n = 3 -> "3"
              [] n = 4 -> "4" [] n = 5 -> "5" [] n = 6 -> "6" [] n = 7 -> "7"
              [] n = 8 -> "8" [] OTHER -> "9"
RECURSIVE IntToStr(_)
IntToStr(n) == IF n < 10 THEN <<Digit(n)>> ELSE IntToStr(n \div 10) \o <<Digit(n % 10)>>

\* f"{idx:05d}"
RECURSIVE ZeroPad(_, _)
ZeroPad(s, w) == IF Len(s) >= w THEN s ELSE ZeroPad(<<"0">> \o s, w)

Rep(c, n) == [i \in 1..n |-> c]

(***************************************************************************)
(* The session cookie.                                                     *)
(***************************************************************************)
Placeholder == <<"V","O","T","R","E","_","C","O","O","K","I","E">>
MinCookieLen == 50

\* the values of the li_at argument explored
CookieArgs == { <<>>, Placeholder, Rep("x", 49), <<" ">> \o Rep("x", 49) \o <<" ">>,
                Rep("x", 50) }

\* the validation without its length test
CookieInvalid_NoLength(c) == c = <<>> \/ c = Placeholder

\* not self.li_at or len(self.li_at) < 50 or self.li_at == "VOTRE_COOKIE"
CookieInvalid(c) == c = <<>> \/ Len(c) < MinCookieLen \/ c = Placeholder

(***************************************************************************)
(* Raw extraction tuples.  A profile URL is <<host, slug>>, standing for    *)
(* https://<host>.linkedin.com/in/<slug>; <<>> is the empty string.        *)
(***************************************************************************)
Tup(h, n, t, p) == [href |-> h, nom |-> n, titre |-> t, photo_url |-> p]

UA == <<"www", "a">>
UB == <<"www", "b">>
UC == <<"www", "c">>
UBfr == <<"fr", "b">>


\* lists that the DOM extraction _JS_EXTRACT can return (hrefs distinct, never empty)
DomLists == { <<>>,
              <<Tup(UA, <<"a">>, "", "da")>>,
              <<Tup(UC, <<>>, "d3", "")>>,
              <<Tup(UBfr, <<"a", "!">>, "", "db"), Tup(UC, <<"a">>, "", "dc")>> }

\* href.split("?")[0].rstrip("/") on an href that is already canonical; slug after "/in/"
HasIn(h) == h # <<>>
Slug(h) == IF HasIn(h) THEN h[2] ELSE ""

(***************************************************************************)
(* Responses seen by the interception handler.  body is the list of the    *)
(* entity results found in the payload, in walk order.                     *)
(***************************************************************************)
\* first occurrence of each href wins (the parser's local seen set)
RECURSIVE DedupByHref(_, _)
DedupByHref(items, seen) ==
    IF items = <<>> THEN <<>>
    ELSE IF Head(items).href \in seen THEN DedupByHref(Tail(items), seen)
         ELSE <<Head(items)>> \o DedupByHref(Tail(items), seen \cup {Head(items).href})

\* what the parser returns for a payload whose entity results are body
ParsedTuples(body) == DedupByHref(body, {})

TA1 == Tup(UA, <<"a">>, "t1", "")
TA2 == Tup(UA, <<"b">>, "t2", "pa")
TB  == Tup(UB, <<"A">>, "", "pb")

Resp(a, st, c, rd, b) == [api |-> a, status |-> st, ct |-> c, readable |-> rd, body |-> b]

\* the responses explored: accepted ones, and one rejected for each reason
Responses == { Resp(TRUE, 200, "json", TRUE, <<TA1>>),
               Resp(TRUE, 200, "javascript", TRUE, <<TA2>>),
               Resp(TRUE, 200, "json", TRUE, <<TB>>),
               Resp(TRUE, 200, "json", TRUE, <<TA1, TA2>>),
               Resp(TRUE, 200, "json", TRUE, <<>>),
               Resp(FALSE, 200, "json", TRUE, <<TB>>),
               Resp(TRUE, 404, "json", TRUE, <<TB>>),
               Resp(TRUE, 200, "html", TRUE, <<TB>>),
               Resp(TRUE, 200, "json", FALSE, <<TB>>) }

\* the tuples on_response appends to voyager_buffer for one response
Intercepted(resp) ==
    IF ~(resp.api /\ resp.status = 200) THEN <<>>
    ELSE IF resp.ct \notin {"json", "javascript"} THEN <<>>
    ELSE IF ~resp.readable THEN <<>>
    ELSE ParsedTuples(resp.body)

(***************************************************************************)
(* Photo file names of LinkedInScraper._dl_photo.                          *)
(***************************************************************************)
WordChars == {"a", "A", "b", "e", "E", "é", "x", "u", "n", "k", "o", "w", "_",
              "0", "1", "2", "3", "4", "5", "6", "7", "8", "9"}

Unknown == <<"u", "n", "k", "n", "o", "w", "n">>
JpgExt == <<".", "j", "p", "g">>

\* re.sub(r"[^\w\-]", "_", nom or "unknown")[:60].strip("_")
SafeChar(c) == IF c \in WordChars \/ c = "-" THEN c ELSE "_"
SafeName(nom) ==
    LET s == IF nom = <<>> THEN Unknown ELSE nom
    IN StripUs(Take([i \in 1..Len(s) |-> SafeChar(s[i])], 60))

\* safe or f"profil_{idx:05d}"
DlBase(nom, idx) ==
    IF SafeName(nom) # <<>> THEN SafeName(nom)
    ELSE <<"p", "r", "o", "f", "i", "l", "_">> \o ZeroPad(IntToStr(idx), 5)

\* the while os.path.exists(fpath) loop: first free name among base.jpg, base_2.jpg, ...
RECURSIVE ProbePath(_, _, _)
ProbePath(fs, base, counter) ==
    LET fpath == IF counter = 1 THEN base \o JpgExt
                 ELSE base \o <<"_">> \o IntToStr(counter) \o JpgExt
    IN IF fpath \in fs THEN ProbePath(fs, base, counter + 1) ELSE fpath

\* What http.get(purl) can do: "ok" = status 200 and a body above the size threshold,
\* "http" = another status or a smaller body, "exc_empty" = an exception whose str()
\* is empty (httpx timeouts are such).  An exception with a message takes the path of
\* "exc_empty" and leaves a non-empty text, as "http" does.
FetchResults == {"ok", "http", "exc_empty"}

\* the error text of a fetch: f"HTTP {status}", str(exc)[:80]
FetchError(res) == CASE res = "ok" -> ""
                     [] res = "http" -> "HTTP"
                     [] OTHER -> ""

\* the Profile returned by _dl_photo for item, res being the result of its fetch
NomOf(item) == Take(Strip(item.nom), 80)
_dl_photo(fs, item, idx, res) ==
    LET fpath == ProbePath(fs, DlBase(NomOf(item), idx), 1)
    IN [url |-> item.href, nom |-> NomOf(item), titre |-> item.titre,
        photo_url |-> item.photo_url,
        photo_path |-> IF item.photo_url # "" /\ res = "ok" THEN fpath ELSE <<>>,
        error |-> IF item.photo_url = "" THEN "Pas de photo publique"
                  ELSE FetchError(res)]

(***************************************************************************)
(* The crawl session: LinkedInScraper.scrape/_run and                      *)
(* AlumniOSINTPipeline.run/_collect_profiles.                              *)
(***************************************************************************)
SkipSets == { {}, {UA} }
FileSets == { {} }

CtlIdle  == [pc |-> "idle"]
DiskIdle == [state |-> "absent", json |-> <<>>, done |-> <<>>]
DlIdle   == [pc |-> "idle"]
PrsIdle  == [pc |-> "idle"]

SessionInit ==
    /\ variant \in {"scraper", "pipeline"}
    /\ li_at \in {Strip(c) : c \in CookieArgs}
    /\ max_profiles \in 0..MaxCap
    /\ max_stale \in {Max(1, a) : a \in 0..MaxStaleArg}
    /\ skip_urls \in (IF variant = "scraper" THEN SkipSets ELSE {{}})
    /\ files \in FileSets
    /\ pc = "scrape"
    /\ outcome = ""
    /\ netLog = {}
    /\ voyager_buffer = <<>>
    /\ consumed = <<>>
    /\ prev_v = 0
    /\ seen_urls = {}
    /\ profiles = <<>>
    /\ stale = 0
    /\ round_num = 0
    /\ clicked = FALSE
    /\ raw = <<>>
    /\ roundLog = <<>>
    /\ ctl = CtlIdle
    /\ disk = DiskIdle
    /\ dl = DlIdle
    /\ prs = PrsIdle
    /\ norm = [pc |-> "idle"]
    /\ face = [pc |-> "idle"]

params == <<variant, li_at, max_profiles, max_stale, skip_urls>>
others == <<ctl, disk, dl, prs, norm, face>>

\* how a session that fails leaves: scrape() returns [], run() raises
Leave == IF variant = "scraper" THEN "returned" ELSE "raised"

\* scrape(): the early validation of the cookie
ScrapeStart ==
    /\ pc = "scrape"
    /\ IF CookieInvalid(li_at)
       THEN pc' = Leave /\ outcome' = "InvalidCredential"
       ELSE pc' = "launch" /\ outcome' = outcome
    /\ UNCHANGED <<params, netLog, voyager_buffer, consumed, prev_v, seen_urls, profiles,
                   stale, round_num, clicked, raw, roundLog, files, others>>

\* _run(): chromium.launch, new_context, add_cookies, new_page, page.on("response")
Launch ==
    /\ pc = "launch"
    /\ netLog' = netLog \cup {"launch"}
    /\ pc' = "goto"
    /\ UNCHANGED <<params, outcome, voyager_buffer, consumed, prev_v, seen_urls, profiles,
                   stale, round_num, clicked, raw, roundLog, files, others>>

NavResults == {"ok", "ERR_TOO_MANY_REDIRECTS", "ERR_NAME_NOT_RESOLVED", "Timeout", "other"}

NavKind(res) == CASE res = "ERR_TOO_MANY_REDIRECTS" -> "ExpiredCredential"
                  [] res = "ERR_NAME_NOT_RESOLVED" -> "NetworkUnavailable"
                  [] res = "Timeout" -> "Unreachable"
                  [] OTHER -> "NavigationError"

\* page.goto(url)
Goto(res) ==
    /\ pc = "goto"
    /\ netLog' = netLog \cup {"goto"}
    /\ IF res = "ok"
       THEN pc' = "settle" /\ outcome' = outcome
       ELSE pc' = Leave /\ outcome' = NavKind(res)
    /\ UNCHANGED <<params, voyager_buffer, consumed, prev_v, seen_urls, profiles,
                   stale, round_num, clicked, raw, roundLog, files, others>>

\* after page.wait_for_timeout: the authwall test, then the initialisation of the loop
AuthCheck(wall) ==
    /\ pc = "settle"
    /\ IF wall
       THEN pc' = Leave /\ outcome' = "ExpiredCredential" /\ seen_urls' = seen_urls
       ELSE pc' = "loop" /\ outcome' = outcome /\ seen_urls' = skip_urls
    /\ UNCHANGED <<params, netLog, voyager_buffer, consumed, prev_v, profiles,
                   stale, round_num, clicked, raw, roundLog, files, others>>

\* while len(profiles) < self.max_profiles: round_num += 1; prev_v = len(voyager_buffer)
LoopTest ==
    /\ pc = "loop"
    /\ IF Len(profiles) < max_profiles
       THEN /\ round_num < MaxRounds
            /\ round_num' = round_num + 1
            /\ prev_v' = Len(voyager_buffer)
            /\ pc' = "scroll"
       ELSE /\ pc' = "close"
            /\ UNCHANGED <<round_num, prev_v>>
    /\ UNCHANGED <<params, outcome, netLog, voyager_buffer, consumed, seen_urls, profiles,
                   stale, clicked, raw, roundLog, files, others>>

\* the interception handler on_response, run at any await of _run
AwaitPoints == {"settle", "scroll", "evaluate", "download", "stalewait"}

on_response(resp) ==
    /\ pc \in AwaitPoints
    /\ Len(voyager_buffer) + Len(Intercepted(resp)) <= MaxBuffer
    /\ voyager_buffer' = voyager_buffer \o Intercepted(resp)
    /\ consumed' = consumed \o [i \in 1..Len(Intercepted(resp)) |-> 0]
    /\ UNCHANGED <<params, pc, outcome, netLog, prev_v, seen_urls, profiles,
                   stale, round_num, clicked, raw, roundLog, files, others>>

\* scroll, click on "load more", network wait, then fresh_v and its filter
FreshSlice(buf, prev) == Drop(buf, prev)
UnseenOf_NoFilter(items, seen) == items
UnseenOf(items, seen) == SelectSeq(items, LAMBDA r : r.href \notin seen)

RoundSlice(c) ==
    /\ pc = "scroll"
    /\ clicked' = c
    /\ raw' = UnseenOf(FreshSlice(voyager_buffer, prev_v), seen_urls)
    /\ consumed' = [i \in 1..Len(consumed) |->
                       IF i > prev_v THEN consumed[i] + 1 ELSE consumed[i]]
    /\ pc' = "evaluate"
    /\ UNCHANGED <<params, outcome, netLog, voyager_buffer, prev_v, seen_urls, profiles,
                   stale, round_num, roundLog, files, others>>

\* dom_by_slug.get(slug): the last DOM tuple with that slug, or NoMatch
NoMatch == [href |-> <<>>, nom |-> <<>>, titre |-> "", photo_url |-> ""]
DomBySlug(dom_raw, slug) ==
    LET hits == {i \in 1..Len(dom_raw) : HasIn(dom_raw[i].href) /\ Slug(dom_raw[i].href) = slug}
    IN IF hits = {} \/ slug = "" THEN NoMatch
       ELSE dom_raw[CHOOSE i \in hits : \A j \in hits : j <= i]

\* the photo of the DOM tuple with the same slug taken whether or not the API has one
MergePhoto_DomFirst(item, dom_raw) ==
    IF DomBySlug(dom_raw, Slug(item.href)).photo_url # ""
    THEN [item EXCEPT !.photo_url = DomBySlug(dom_raw, Slug(item.href)).photo_url]
    ELSE item

\* an API tuple without photo takes the photo of the DOM tuple with the same slug
MergePhoto(item, dom_raw) ==
    IF item.photo_url = "" /\ DomBySlug(dom_raw, Slug(item.href)).photo_url # ""
    THEN [item EXCEPT !.photo_url = DomBySlug(dom_raw, Slug(item.href)).photo_url]
    ELSE item

\* the round's candidates: merged API tuples, or the unseen DOM tuples when there are none
RoundRaw(api_raw, dom_raw, seen) ==
    IF api_raw # <<>> THEN [i \in 1..Len(api_raw) |-> MergePhoto(api_raw[i], dom_raw)]
    ELSE UnseenOf(dom_raw, seen)

Hrefs(items) == {items[i].href : i \in 1..Len(items)}

\* batch = raw[:slots]
Batch_NoTruncation(items, cap, have) == items
Batch(items, cap, have) == Take(items, cap - have)

\* LinkedInScraper: page.evaluate(_JS_EXTRACT), merge, seen_urls.add, batch
DomMerge(dom_raw) ==
    /\ pc = "evaluate"
    /\ variant = "scraper"
    /\ seen_urls' = seen_urls \cup Hrefs(RoundRaw(raw, dom_raw, seen_urls))
    /\ raw' = Batch(RoundRaw(raw, dom_raw, seen_urls), max_profiles, Len(profiles))
    /\ pc' = "download"
    /\ UNCHANGED <<params, outcome, netLog, voyager_buffer, consumed, prev_v, profiles,
                   stale, round_num, clicked, roundLog, files, others>>

\* the exit condition with > instead of >=
StaleNext_OffByOne(added, c, st, limit) ==
    IF added = 0 /\ ~c
    THEN [stale |-> st + 1, pc |-> IF st + 1 > limit THEN "close" ELSE "stalewait"]
    ELSE [stale |-> 0, pc |-> "loop"]

\* the exit condition at the end of a round: the new stale and the next position
StaleNext(added, c, st, limit) ==
    IF added = 0 /\ ~c
    THEN [stale |-> st + 1, pc |-> IF st + 1 >= limit THEN "close" ELSE "stalewait"]
    ELSE [stale |-> 0, pc |-> "loop"]

\* asyncio.gather of the round's _dl_photo tasks, profiles.extend(done), exit condition.
\* Every task computes its fpath before its first await, so before any file is written.
Gather(oks) ==
    /\ pc = "download"
    /\ LET done == [i \in 1..Len(raw) |->
                       _dl_photo(files, raw[i], Len(profiles) + i - 1, oks[i])]
           nxt  == StaleNext(Len(done), clicked, stale, max_stale)
       IN /\ profiles' = profiles \o done
          /\ files' = files \cup {done[i].photo_path : i \in {j \in 1..Len(done) :
                                                         done[j].photo_path # <<>>}}
          /\ netLog' = IF \E i \in 1..Len(raw) : raw[i].photo_url # ""
                       THEN netLog \cup {"get"} ELSE netLog
          /\ roundLog' = Append(roundLog, [added |-> Len(done), clicked |-> clicked])
          /\ stale' = nxt.stale
          /\ pc' = nxt.pc
    /\ raw' = <<>>
    /\ UNCHANGED <<params, outcome, voyager_buffer, consumed, prev_v, seen_urls,
                   round_num, clicked, others>>

\* AlumniOSINTPipeline: the loop over raw that appends to collected
AlumniOf(item) ==
    [url |-> item.href, nom |-> Strip(item.nom), titre |-> item.titre,
     photo_url |-> item.photo_url, photo_path |-> <<>>, error |-> ""]

RECURSIVE Collect(_, _, _, _)
Collect(items, seen, collected, cap) ==
    IF items = <<>> THEN [seen |-> seen, collected |-> collected]
    ELSE IF Head(items).href = <<>> \/ Head(items).href \in seen
         THEN Collect(Tail(items), seen, collected, cap)
         ELSE IF Len(collected) + 1 >= cap
              THEN [seen |-> seen \cup {Head(items).href},
                    collected |-> Append(collected, AlumniOf(Head(items)))]
              ELSE Collect(Tail(items), seen \cup {Head(items).href},
                           Append(collected, AlumniOf(Head(items))), cap)

\* AlumniOSINTPipeline: page.evaluate(_JS_EXTRACT), merge, collect, exit condition
DomCollect(dom_raw) ==
    /\ pc = "evaluate"
    /\ variant = "pipeline"
    /\ LET res == Collect(RoundRaw(raw, dom_raw, seen_urls), seen_urls, profiles, max_profiles)
           added == Len(res.collected) - Len(profiles)
           nxt == StaleNext(added, clicked, stale, max_stale)
       IN /\ seen_urls' = res.seen
          /\ profiles' = res.collected
          /\ roundLog' = Append(roundLog, [added |-> added, clicked |-> clicked])
          /\ stale' = nxt.stale
          /\ pc' = nxt.pc
    /\ raw' = <<>>
    /\ UNCHANGED <<params, outcome, netLog, voyager_buffer, consumed, prev_v,
                   round_num, clicked, files, others>>

\* page.wait_for_timeout after a stale round
StaleWait ==
    /\ pc = "stalewait"
    /\ pc' = "loop"
    /\ UNCHANGED <<params, outcome, netLog, voyager_buffer, consumed, prev_v, seen_urls,
                   profiles, stale, round_num, clicked, raw, roundLog, files, others>>

\* browser.close(); return profiles
Close ==
    /\ pc = "close"
    /\ pc' = "returned"
    /\ outcome' = "Done"
    /\ UNCHANGED <<params, netLog, voyager_buffer, consumed, prev_v, seen_urls,
                   profiles, stale, round_num, clicked, raw, roundLog, files, others>>

\* The task running _run / _collect_profiles is cancelled between two rounds (the code
\* has no stop request of its own): the exception leaves the coroutine at its await,
\* the browser is closed by the exit of "async with", and scrape() / run() raise too.
\* profiles is a local of the coroutine: nothing is returned.
Abandon ==
    /\ pc \in {"loop", "stalewait"}
    /\ pc' = "raised"
    /\ outcome' = "Abandoned"
    /\ UNCHANGED <<params, netLog, voyager_buffer, consumed, prev_v, seen_urls,
                   profiles, stale, round_num, clicked, raw, roundLog, files, others>>

SessionNext ==
    \/ ScrapeStart
    \/ Launch
    \/ \E res \in NavResults : Goto(res)
    \/ \E wall \in BOOLEAN : AuthCheck(wall)
    \/ LoopTest
    \/ \E resp \in Responses : on_response(resp)
    \/ \E c \in BOOLEAN : RoundSlice(c)
    \/ \E dom_raw \in DomLists : DomMerge(dom_raw)
    \/ \E oks \in [1..Len(raw) -> FetchResults] : Gather(oks)
    \/ \E dom_raw \in DomLists : DomCollect(dom_raw)
    \/ StaleWait
    \/ Close
    \/ Abandon

SessionSpec == SessionInit /\ [][SessionNext]_vars

(***************************************************************************)
(* Properties of the crawl session.                                        *)
(***************************************************************************)
Returned == pc = "returned" /\ outcome = "Done"

\* C1: the list returned by LinkedInScraper.scrape holds at most one record per
\* canonical profile URL.
C1_OneRecordPerUrl ==
    (variant = "scraper" /\ Returned) =>
        \A i, j \in 1..Len(profiles) : i # j => profiles[i].url # profiles[j].url

\* C2: every tuple buffered by the interception handler before a round starts has been
\* in the fresh slice of exactly one round (none skipped, none consumed twice).
C2_BufferedTupleConsumedOnce ==
    pc \in {"scroll", "evaluate", "download"} =>
        \A i \in 1..prev_v : consumed[i] = 1

\* number of stale rounds (nothing added, nothing clicked) at the end of the log
RECURSIVE TrailingStale(_)
TrailingStale(log) ==
    IF log = <<>> THEN 0
    ELSE IF log[Len(log)].added = 0 /\ ~log[Len(log)].clicked
         THEN 1 + TrailingStale(SubSeq(log, 1, Len(log) - 1))
         ELSE 0

InLoop == pc \in {"loop", "scroll", "evaluate", "download", "stalewait"}
LoopLeft == pc = "close" \/ Returned

\* C6: the loop goes on while fewer than max_stale_rounds consecutive stale rounds have
\* ended, exits for staleness at the end of exactly the max_stale_rounds-th one, the
\* count of stale rounds is zero after any round that adds a record or clicks, and the
\* collected list never grows once the loop is left.
C6_StaleTermination ==
    /\ [](/\ stale = TrailingStale(roundLog)
          /\ InLoop => TrailingStale(roundLog) < max_stale
          /\ LoopLeft => \/ TrailingStale(roundLog) = max_stale
                         \/ Len(profiles) >= max_profiles)
    /\ [][LoopLeft => profiles' = profiles]_vars

\* C6 witness: a session left for staleness after a round that had reset the count
C6_Witness ==
    /\ LoopLeft
    /\ Len(profiles) < max_profiles
    /\ max_stale = 2
    /\ Len(roundLog) = 3
    /\ roundLog[1].added > 0

\* C8: the number of collected records never exceeds max_profiles.
C8_AtMostCap == Len(profiles) <= max_profiles

\* C8 witness: a session that was offered more new profiles than its cap and filled it
C8_Witness ==
    /\ Returned
    /\ max_profiles >= 1
    /\ Len(profiles) = max_profiles
    /\ Cardinality(seen_urls \ skip_urls) > max_profiles

\* C9: no collected record has a URL of skip_urls.
C9_SkipUrlsExcluded == \A i \in 1..Len(profiles) : profiles[i].url \notin skip_urls

\* C9 witness: a session that returned records although a tuple of a skipped URL was
\* in a fresh slice
C9_Witness ==
    /\ Returned
    /\ profiles # <<>>
    /\ \E i \in 1..Len(voyager_buffer) :
          voyager_buffer[i].href \in skip_urls /\ consumed[i] = 1

\* C10: with an empty, too short or placeholder cookie the run ends as a failure
\* without any network action (no browser launch, no navigation, no HTTP request).
C10_NoNetworkWithInvalidCookie ==
    (li_at = <<>> \/ Len(li_at) < MinCookieLen \/ li_at = Placeholder) =>
        /\ netLog = {}
        /\ pc \in {"scrape", "returned", "raised"}
        /\ pc # "scrape" => outcome = "InvalidCredential" /\ profiles = <<>>

\* C10 witness: a run ended on a cookie one character too short
C10_Witness ==
    /\ Len(li_at) = MinCookieLen - 1
    /\ pc \in {"returned", "raised"}

\* What the caller of scrape() / run() receives once the session has ended.
\* scrape(): "return []" on every failure path, "return profiles" after the loop; the
\* kind of failure goes to self._log only.  run(): the exception raised (ValueError,
\* the navigation error with its message, RuntimeError), which names the failure.
Handed ==
    CASE pc = "returned" /\ outcome = "Done" ->
             [how |-> "return", value |-> profiles, kind |-> ""]
      [] pc = "returned" ->
             [how |-> "return", value |-> <<>>, kind |-> ""]
      [] pc = "raised" ->
             [how |-> "raise", value |-> <<>>, kind |-> outcome]
      [] OTHER ->
             [how |-> "running", value |-> <<>>, kind |-> ""]

Ended == pc \in {"returned", "raised"}
Failed == Ended /\ outcome # "Done"

\* what a successful crawl that found no profile hands to its caller
EmptySuccess == [how |-> "return", value |-> <<>>, kind |-> ""]

\* C13: a session abandoned between two rounds hands its caller the records collected
\* in the rounds that have finished, unchanged.
C13_AbandonKeepsRecords ==
    outcome = "Abandoned" => Handed.value = profiles

\* C14: every record returned by the download step of LinkedInScraper has either a
\* photo path and no error, or no photo path and an error, whatever made the fetch fail.
C14_PathXorError ==
    variant = "scraper" =>
        \A i \in 1..Len(profiles) :
            \/ profiles[i].photo_path # <<>> /\ profiles[i].error = ""
            \/ profiles[i].photo_path = <<>> /\ profiles[i].error # ""

\* C11: a session that failed fatally (invalid credential, redirect loop, DNS failure,
\* navigation timeout, authentication wall) hands its caller its classification, so
\* what it hands differs from what a successful crawl of zero profiles hands.
C11_FailureKindReachesCaller ==
    Failed => /\ Handed.kind = outcome
              /\ Handed # EmptySuccess

(***************************************************************************)
(* The segmented controllers: main() of scrape_post2022.py (prog =         *)
(* "post2022") and of scrape_all_alumni.py (prog = "all_alumni").          *)
(* A call of scraper.scrape(url) is one step: the session above run as a   *)
(* function of what the page delivers in each of its rounds.               *)
(***************************************************************************)
MaxSegments == 2    \* number of segments (years) of a run
MaxRuns     == 2    \* number of times the program is started
CtlRounds   == 1    \* most productive rounds of a session started by a controller
CtlCap      == 2    \* max_profiles given to the sessions of a controller
StartYear   == 2021
DefaultMaxStale == 3

\* normalize_name: NFKD without combining marks, whitespace collapsed, stripped, casefolded
normalize_name(name) ==
    LET t1 == Strip(name)
        t2 == [i \in 1..Len(t1) |-> Unaccent(t1[i])]
        t3 == Strip(CollapseWs(t2, " "))
    IN [i \in 1..Len(t3) |-> Casefold(t3[i])]

\* what the page delivers in one round of a session
RoundIn(f, d, c, o) == [fresh |-> f, dom |-> d, clicked |-> c, ok |-> o]
RoundInputs == { RoundIn(<<TA1>>, <<>>, FALSE, "ok"),
                 RoundIn(<<TA1, TA2>>, <<>>, FALSE, "http"),
                 RoundIn(<<TB>>, <<Tup(UA, <<"a">>, "", "da")>>, TRUE, "ok"),
                 RoundIn(<<>>, <<Tup(UBfr, <<"a", "!">>, "", "db"), Tup(UC, <<"é">>, "", "dc")>>,
                         FALSE, "ok"),
                 RoundIn(<<>>, <<>>, FALSE, "ok") }

\* the rounds of _run as a function: [profiles, files] after the rounds of inputs
RECURSIVE RunRounds(_, _, _, _, _, _, _)
RunRounds(inputs, seen, profs, st, cap, limit, fs) ==
    IF inputs = <<>> \/ Len(profs) >= cap THEN [profiles |-> profs, files |-> fs]
    ELSE LET in    == Head(inputs)
             rr    == RoundRaw(UnseenOf(in.fresh, seen), in.dom, seen)
             batch == Batch(rr, cap, Len(profs))
             done  == [i \in 1..Len(batch) |->
                          _dl_photo(fs, batch[i], Len(profs) + i - 1, in.ok)]
             nxt   == StaleNext(Len(done), in.clicked, st, limit)
             fs2   == fs \cup {done[i].photo_path :
                                  i \in {j \in 1..Len(done) : done[j].photo_path # <<>>}}
         IN IF nxt.pc = "close" THEN [profiles |-> profs \o done, files |-> fs2]
            ELSE RunRounds(Tail(inputs), seen \cup Hrefs(rr), profs \o done,
                           nxt.stale, cap, limit, fs2)

\* scraper.scrape(url) for a scraper built with cookie c and skip_urls skip; nav is what
\* page.goto and the authwall test meet, and anything but "ok" ends in "return []"
ScrapeResult(c, skip, nav, inputs, fs) ==
    IF CookieInvalid(Strip(c)) \/ nav # "ok" THEN [profiles |-> <<>>, files |-> fs]
    ELSE RunRounds(inputs, skip, <<>>, 0, CtlCap, DefaultMaxStale, fs)

\* the segment labels: str(year) for post2022, the labels of YEAR_SEGMENTS otherwise
Labels == [i \in 1..MaxSegments |-> IntToStr(StartYear + i - 1)]

UrlsOf(entries) == {entries[i].url : i \in {j \in 1..Len(entries) : entries[j].url # <<>>}}
NamesOf(entries) ==
    {normalize_name(entries[i].nom) :
        i \in {j \in 1..Len(entries) : normalize_name(entries[j].nom) # <<>>}}

\* the loop over batch without its test of seen_urls
RECURSIVE MergeBatch_NoUrlTest(_, _, _, _)
MergeBatch_NoUrlTest(batch, all, urls, names) ==
    IF batch = <<>> THEN [all |-> all, urls |-> urls, names |-> names]
    ELSE LET e   == Head(batch)
             key == normalize_name(e.nom)
         IN IF key # <<>> /\ key \in names
            THEN MergeBatch_NoUrlTest(Tail(batch), all, urls, names)
            ELSE MergeBatch_NoUrlTest(Tail(batch), Append(all, e),
                                      IF e.url # <<>> THEN urls \cup {e.url} ELSE urls,
                                      IF key # <<>> THEN names \cup {key} ELSE names)

\* scrape_post2022: the loop over batch that appends the new entries to all_profiles
RECURSIVE MergeBatch(_, _, _, _)
MergeBatch(batch, all, urls, names) ==
    IF batch = <<>> THEN [all |-> all, urls |-> urls, names |-> names]
    ELSE LET e   == Head(batch)
             key == normalize_name(e.nom)
         IN IF e.url # <<>> /\ e.url \in urls
            THEN MergeBatch(Tail(batch), all, urls, names)
            ELSE IF key # <<>> /\ key \in names
                 THEN MergeBatch(Tail(batch), all, urls, names)
                 ELSE MergeBatch(Tail(batch), Append(all, e),
                                 IF e.url # <<>> THEN urls \cup {e.url} ELSE urls,
                                 IF key # <<>> THEN names \cup {key} ELSE names)

\* scrape_all_alumni: the same loop, by URL only (also used on the loaded file)
RECURSIVE MergeByUrl(_, _, _)
MergeByUrl(batch, all, urls) ==
    IF batch = <<>> THEN [all |-> all, urls |-> urls, names |-> {}]
    ELSE IF Head(batch).url \in urls THEN MergeByUrl(Tail(batch), all, urls)
         ELSE MergeByUrl(Tail(batch), Append(all, Head(batch)), urls \cup {Head(batch).url})

CtlStart(prog, run, ghost) ==
    [pc |-> "main", prog |-> prog, run |-> run, seg |-> 1,
     all_profiles |-> <<>>, seen_urls |-> {}, seen_names |-> {}, done_years |-> {},
     loaded |-> <<>>, sessions |-> <<>>, batches |-> <<>>, raised |-> <<>>,
     fatal |-> <<>>,
     segNew |-> ghost]

CtlInit ==
    /\ ctl \in {CtlStart(p, 1, [l \in Range(Labels) |-> <<>>]) : p \in {"post2022", "all_alumni"}}
    /\ disk = DiskIdle
    /\ li_at \in {Rep("x", 50), <<" ">> \o Rep("x", 49)}
    /\ files = {}
    /\ variant = "scraper"
    /\ max_profiles = CtlCap
    /\ max_stale = DefaultMaxStale
    /\ skip_urls = {}
    /\ pc = "idle"
    /\ outcome = ""
    /\ netLog = {}
    /\ voyager_buffer = <<>>
    /\ consumed = <<>>
    /\ prev_v = 0
    /\ seen_urls = {}
    /\ profiles = <<>>
    /\ stale = 0
    /\ round_num = 0
    /\ clicked = FALSE
    /\ raw = <<>>
    /\ roundLog = <<>>
    /\ dl = DlIdle
    /\ prs = PrsIdle
    /\ norm = [pc |-> "idle"]
    /\ face = [pc |-> "idle"]

session == <<variant, max_profiles, max_stale, skip_urls, pc, outcome, netLog,
             voyager_buffer, consumed, prev_v, seen_urls, profiles, stale, round_num,
             clicked, raw, roundLog, prs, norm, face>>

\* main(): the test of the cookie (post2022 strips it first)
MainStart ==
    /\ ctl.pc = "main"
    /\ ctl' = [ctl EXCEPT !.pc =
                 IF CookieInvalid(IF ctl.prog = "post2022" THEN Strip(li_at) ELSE li_at)
                 THEN "exit" ELSE "load"]
    /\ li_at' = IF ctl.prog = "post2022" THEN Strip(li_at) ELSE li_at
    /\ UNCHANGED <<session, files, disk, dl>>

\* main(): json.load of profiles.json when it exists, and the read of .years_done
Load ==
    /\ ctl.pc = "load"
    /\ IF disk.state = "corrupt"
       THEN ctl' = [ctl EXCEPT !.pc = "crashed"]
       ELSE LET file == IF disk.state = "absent" THEN <<>> ELSE disk.json
                m    == IF ctl.prog = "post2022"
                        THEN [all |-> file, urls |-> UrlsOf(file), names |-> NamesOf(file)]
                        ELSE MergeByUrl(file, <<>>, {})
            IN ctl' = [ctl EXCEPT !.pc = "segment",
                                  !.all_profiles = m.all,
                                  !.seen_urls = m.urls,
                                  !.seen_names = m.names,
                                  !.loaded = m.all,
                                  !.done_years = IF ctl.prog = "post2022"
                                                 THEN Range(disk.done) ELSE {}]
    /\ UNCHANGED <<session, li_at, files, disk, dl>>

\* if label in done_years
SegSkipped_Never(label, done) == FALSE
SegSkipped(label, done) == label \in done

\* the head of the loop over the segments: skip a completed one, or leave the loop
SegTest ==
    /\ ctl.pc = "segment"
    /\ ctl' = IF ctl.seg > MaxSegments THEN [ctl EXCEPT !.pc = "finished"]
              ELSE IF SegSkipped(Labels[ctl.seg], ctl.done_years)
                   THEN [ctl EXCEPT !.seg = ctl.seg + 1]
                   ELSE [ctl EXCEPT !.pc = "scrape"]
    /\ UNCHANGED <<session, li_at, files, disk, dl>>

\* scraper.scrape(url) and the merge of its batch into all_profiles.  An exception of
\* the session is caught by scrape_post2022 (batch = []) and leaves main() of
\* scrape_all_alumni, whose call is outside any try.
Scrape(inputs, raises, nav) ==
    /\ ctl.pc = "scrape"
    /\ LET res   == ScrapeResult(li_at, IF ctl.prog = "post2022" THEN ctl.seen_urls ELSE {},
                                 nav, inputs, files)
           batch == IF raises THEN <<>> ELSE res.profiles
           m     == IF ctl.prog = "post2022"
                    THEN MergeBatch(batch, ctl.all_profiles, ctl.seen_urls, ctl.seen_names)
                    ELSE MergeByUrl(batch, ctl.all_profiles, ctl.seen_urls)
       IN /\ files' = IF raises THEN files ELSE res.files
          /\ ctl' = IF raises /\ ctl.prog = "all_alumni"
                    THEN [ctl EXCEPT !.pc = "aborted",
                                     !.sessions = Append(ctl.sessions, Labels[ctl.seg]),
                                     !.raised = Append(ctl.raised, Labels[ctl.seg])]
                    ELSE [ctl EXCEPT !.pc = "open_json",
                                     !.all_profiles = m.all,
                                     !.seen_urls = m.urls,
                                     !.seen_names = m.names,
                                     !.sessions = Append(ctl.sessions, Labels[ctl.seg]),
                                     !.batches = Append(ctl.batches, batch),
                                     !.raised = IF raises
                                                THEN Append(ctl.raised, Labels[ctl.seg])
                                                ELSE ctl.raised,
                                     !.fatal = IF ~raises /\ nav # "ok"
                                               THEN Append(ctl.fatal, Labels[ctl.seg])
                                               ELSE ctl.fatal,
                                     !.segNew = [ctl.segNew EXCEPT ![Labels[ctl.seg]] =
                                                   Drop(m.all, Len(ctl.all_profiles))]]
    /\ UNCHANGED <<session, li_at, disk, dl>>

\* open(json_path, "w"): the file is truncated
OpenJson ==
    /\ ctl.pc = "open_json"
    /\ disk' = [disk EXCEPT !.state = "corrupt", !.json = <<>>]
    /\ ctl' = [ctl EXCEPT !.pc = "dump_json"]
    /\ UNCHANGED <<session, li_at, files, dl>>

\* json.dump(all_profiles, f) and the close of the file
DumpJson ==
    /\ ctl.pc = "dump_json"
    /\ disk' = [disk EXCEPT !.state = "ok", !.json = ctl.all_profiles]
    /\ ctl' = [ctl EXCEPT !.pc = IF ctl.prog = "post2022" THEN "mark" ELSE "segment",
                          !.seg = IF ctl.prog = "post2022" THEN ctl.seg ELSE ctl.seg + 1]
    /\ UNCHANGED <<session, li_at, files, dl>>

\* the append of the label to .years_done
MarkDone ==
    /\ ctl.pc = "mark"
    /\ disk' = [disk EXCEPT !.done = Append(disk.done, Labels[ctl.seg])]
    /\ ctl' = [ctl EXCEPT !.pc = "segment", !.seg = ctl.seg + 1]
    /\ UNCHANGED <<session, li_at, files, dl>>

\* the process is interrupted (killed, power loss) at any point of main()
Interrupt ==
    /\ ctl.pc \in {"main", "load", "segment", "scrape", "open_json", "dump_json", "mark"}
    /\ ctl' = [ctl EXCEPT !.pc = "crashed"]
    /\ UNCHANGED <<session, li_at, files, disk, dl>>

\* the program is started again on the same output directory
Restart ==
    /\ ctl.pc \in {"crashed", "aborted", "finished", "exit"}
    /\ ctl.run < MaxRuns
    /\ ctl' = CtlStart(ctl.prog, ctl.run + 1, ctl.segNew)
    /\ UNCHANGED <<session, li_at, files, disk, dl>>

InputSeqs == {<<>>} \cup UNION {[1..n -> RoundInputs] : n \in 1..CtlRounds}

CtlNext ==
    \/ MainStart
    \/ Load
    \/ SegTest
    \/ \E inputs \in InputSeqs, raises \in BOOLEAN,
          nav \in {"ok", "ERR_TOO_MANY_REDIRECTS", "authwall"} : Scrape(inputs, raises, nav)
    \/ OpenJson
    \/ DumpJson
    \/ MarkDone
    \/ Interrupt
    \/ Restart

CtlSpec == CtlInit /\ [][CtlNext]_vars

(***************************************************************************)
(* Properties of the segmented controllers.                                *)
(***************************************************************************)
\* a run of scrape_post2022 that found a non-empty marker and went through all segments
ResumedRunFinished ==
    ctl.prog = "post2022" /\ ctl.pc = "finished" /\ ctl.done_years # {}

NotDone(label) == label \notin ctl.done_years
NewTail == Drop(ctl.all_profiles, Len(ctl.loaded))
BatchRecords == UNION {Range(ctl.batches[i]) : i \in 1..Len(ctl.batches)}
KeyOf(e) == normalize_name(e.nom)

\* the part of resume correctness that does not depend on the notion of "new"
ResumeFrame ==
    /\ ctl.sessions = SelectSeq(Labels, NotDone)
    /\ Take(ctl.all_profiles, Len(ctl.loaded)) = ctl.loaded
    /\ Range(NewTail) \subseteq BatchRecords
    /\ \A i \in 1..Len(NewTail) : NewTail[i].url \notin UrlsOf(ctl.loaded)
    /\ \A i, j \in 1..Len(NewTail) : i # j => NewTail[i].url # NewTail[j].url

\* C3 as claimed: a restart runs a session for exactly the segments absent from the
\* marker and ends with the loaded records followed by the deduplicated union by URL
\* of the records returned for those segments.
C3_ResumeUnionByUrl ==
    ResumedRunFinished =>
        /\ ResumeFrame
        /\ \A r \in BatchRecords : r.url \in UrlsOf(ctl.all_profiles)

\* C3 amended: as above, but a returned record is also left out when its normalized
\* name is non-empty and equals that of a record already held.
C3_ResumeUnionByUrlAndName ==
    ResumedRunFinished =>
        /\ ResumeFrame
        /\ \A r \in BatchRecords :
              \/ r.url \in UrlsOf(ctl.all_profiles)
              \/ KeyOf(r) # <<>> /\ KeyOf(r) \in NamesOf(ctl.all_profiles)
        /\ \A i \in 1..Len(NewTail) :
              KeyOf(NewTail[i]) # <<>> => KeyOf(NewTail[i]) \notin NamesOf(ctl.loaded)
        /\ \A i, j \in 1..Len(NewTail) :
              (i # j /\ KeyOf(NewTail[i]) # <<>>) => KeyOf(NewTail[i]) # KeyOf(NewTail[j])

\* C3 witness: a restart that skipped the first segment, crawled the second one and
\* added records to the loaded ones
C3_Witness ==
    /\ ResumedRunFinished
    /\ ctl.done_years = {Labels[1]}
    /\ ctl.sessions = <<Labels[2]>>
    /\ ctl.loaded # <<>>
    /\ Len(ctl.all_profiles) > Len(ctl.loaded)

NoDuplicateUrl(entries) ==
    \A i, j \in 1..Len(entries) :
        (i # j /\ entries[i].url # <<>>) => entries[i].url # entries[j].url

\* C4: the accumulated list and the progress file hold at most one record per
\* non-empty profile URL.
C4_OneEntryPerUrl == NoDuplicateUrl(ctl.all_profiles) /\ NoDuplicateUrl(disk.json)

\* C4 witness: a finished run in which a session returned a profile URL twice, or
\* two sessions returned the same profile URL
C4_Witness ==
    /\ ctl.pc = "finished"
    /\ \/ \E i \in 1..Len(ctl.batches) : ~NoDuplicateUrl(ctl.batches[i])
       \/ \E i, j \in 1..Len(ctl.batches) :
             i # j /\ UrlsOf(ctl.batches[i]) \cap UrlsOf(ctl.batches[j]) # {}

\* C5: after an interruption at any point the progress file is readable and holds every
\* record added for every segment listed in the completed-segments marker.
C5_ProgressSurvivesInterrupt ==
    ctl.pc = "crashed" =>
        /\ disk.state # "corrupt"
        /\ \A i \in 1..Len(disk.done) :
              Range(ctl.segNew[disk.done[i]]) \subseteq Range(disk.json)

\* the labels after the first segment whose session raised
AfterRaise == {Labels[i] : i \in {j \in 1..MaxSegments :
                  \E k \in 1..(j - 1) : Labels[k] \in Range(ctl.raised)}}

\* the step of main() in which the session of the current segment raises
RaisingStep ==
    /\ ctl.pc = "scrape"
    /\ ctl'.pc \in {"open_json", "aborted"}
    /\ Len(ctl'.raised) > Len(ctl.raised)

\* C12: an exception of a segment's session never ends main(); the run goes on to
\* attempt every later segment that is not marked complete, and the step in which the
\* session raises leaves the accumulated records and the progress file as they were.
C12_RaisingSegmentSkipped ==
    /\ [](/\ ctl.pc # "aborted"
          /\ ctl.pc = "finished" =>
                \A l \in AfterRaise : l \in ctl.done_years \/ l \in Range(ctl.sessions))
    /\ [][RaisingStep => ctl'.all_profiles = ctl.all_profiles /\ disk' = disk]_vars

(***************************************************************************)
(* The image pipeline: AlumniOSINTPipeline._download_images and            *)
(* _download_single_image.  A photo URL is [kind, size]: kind "shrink" or  *)
(* "scale" stands for a URL holding the token <kind>_<size>_<size>, kind   *)
(* "plain" for a URL without such a token, kind "" for the empty string.   *)
(***************************************************************************)
MaxRecords == 2     \* most records given to the download step
PoolSize == 8
DefaultHighRes == 800

NoUrl == [kind |-> "", size |-> 0]
PhotoUrls == {NoUrl, [kind |-> "plain", size |-> 0], [kind |-> "shrink", size |-> 100]}

\* make_high_res_image_url: the size token replaced by target_size
make_high_res_image_url(url, target_size) ==
    IF url.kind \in {"shrink", "scale"} THEN [url EXCEPT !.size = target_size] ELSE url

\* uniq of _hd_candidates: first occurrences, empty URLs left out
RECURSIVE Uniq(_, _)
Uniq(cands, acc) ==
    IF cands = <<>> THEN acc
    ELSE IF Head(cands) = NoUrl \/ Head(cands) \in Range(acc) THEN Uniq(Tail(cands), acc)
         ELSE Uniq(Tail(cands), Append(acc, Head(cands)))

_hd_candidates(source_url, high_res_size) ==
    IF source_url = NoUrl THEN <<>>
    ELSE Uniq(<<make_high_res_image_url(source_url, high_res_size),
                make_high_res_image_url(source_url, 1200),
                make_high_res_image_url(source_url, 800),
                make_high_res_image_url(source_url, 600),
                source_url>>, <<>>)

\* normalize_name_for_filename
AsciiKept == {"a", "A", "b", "e", "E", "x", "i", "n", "c", "-", " ", "_"}
UnknownProfile == <<"u","n","k","n","o","w","n","_","p","r","o","f","i","l","e">>
normalize_name_for_filename(name) ==
    LET t1 == Strip(name)
        t2 == [i \in 1..Len(t1) |-> Unaccent(t1[i])]
        t3 == [i \in 1..Len(t2) |-> IF t2[i] = "'" THEN " " ELSE t2[i]]
        t4 == SelectSeq(t3, LAMBDA c : c \in AsciiKept)
        t5 == StripUs(CollapseWs(t4, "_"))
    IN IF t5 = <<>> THEN UnknownProfile ELSE t5

\* urlparse(profile_url).path.strip("/").replace("/", "_")
PathOf(url) == IF url = <<>> THEN <<>> ELSE <<"i", "n", "_", url[2]>>

\* base of the file name of a record
ImageBase(p) ==
    IF normalize_name_for_filename(p.name) = UnknownProfile
    THEN normalize_name_for_filename(PathOf(p.profile_url))
    ELSE normalize_name_for_filename(p.name)

Alumni(n, u, src) ==
    [name |-> n, profile_url |-> u, source_image_url |-> src, high_res_image_url |-> NoUrl,
     image_filename |-> <<>>, image_path |-> <<>>, image_downloaded |-> FALSE, error |-> ""]

DlNames == { <<"a">>, <<"a", "!">>, <<>> }
DlUrls == <<UA, UB, UC>>

\* the lists _collect_profiles can hand over: profile URLs distinct and not empty
DlLists == UNION { { [i \in 1..n |-> Alumni(names[i], DlUrls[i], srcs[i])] :
                       names \in [1..n -> DlNames], srcs \in [1..n -> PhotoUrls] } :
                   n \in 1..MaxRecords }

\* tries and last are the history of the task's own fetches: how many have ended and
\* what the latest did (every earlier one failed, or the task would have ended)
NewTask == [st |-> "new", target |-> <<>>, cands |-> <<>>, last_error |-> "",
            tries |-> 0, last |-> ""]

DlInit ==
    /\ dl \in { [pc |-> "gather", profiles |-> l, tasks |-> [i \in 1..Len(l) |-> NewTask],
                 inflight |-> 0, writers |-> <<>>, files0 |-> f] :
                 l \in DlLists, f \in { {}, {<<"a">> \o JpgExt} } }
    /\ files = dl.files0
    /\ li_at = Rep("x", 50)
    /\ ctl = CtlIdle
    /\ disk = DiskIdle
    /\ variant = "pipeline"
    /\ max_profiles = MaxRecords
    /\ max_stale = DefaultMaxStale
    /\ skip_urls = {}
    /\ pc = "returned"
    /\ outcome = "Done"
    /\ netLog = {}
    /\ voyager_buffer = <<>>
    /\ consumed = <<>>
    /\ prev_v = 0
    /\ seen_urls = {}
    /\ profiles = <<>>
    /\ stale = 0
    /\ round_num = 0
    /\ clicked = FALSE
    /\ raw = <<>>
    /\ roundLog = <<>>
    /\ prs = PrsIdle
    /\ norm = [pc |-> "idle"]
    /\ face = [pc |-> "idle"]

Started(i) == dl.tasks[i].st # "new"
AllStarted == \A i \in 1..Len(dl.tasks) : Started(i)

\* task i is not at "async with sem" with a permit free: entering the semaphore
\* does not suspend a task while a permit is free
AtAwait(i) == dl.tasks[i].st = "waiting" => dl.inflight >= PoolSize

\* _download_single_image up to "async with sem": the tasks start in list order and
\* each runs without suspension until it waits for the semaphore or the first fetch
Prepare(i) ==
    /\ dl.pc = "gather"
    /\ dl.tasks[i].st = "new"
    /\ \A j \in 1..(i - 1) : Started(j) /\ AtAwait(j)
    /\ LET p == dl.profiles[i]
           cands == _hd_candidates(p.source_image_url, DefaultHighRes)
       IN IF p.source_image_url = NoUrl
          THEN dl' = [dl EXCEPT !.profiles[i].error = "No public image URL",
                                !.tasks[i].st = "done"]
          ELSE dl' = [dl EXCEPT !.profiles[i].high_res_image_url = cands[1],
                                !.tasks[i].st = "waiting",
                                !.tasks[i].cands = cands,
                                !.tasks[i].target = ProbePath(files, ImageBase(p), 1)]
    /\ UNCHANGED <<session, li_at, files, ctl, disk>>

\* async with sem: one of the PoolSize permits is taken
Acquire(i) ==
    /\ dl.pc = "gather"
    /\ dl.tasks[i].st = "waiting"
    /\ dl.inflight < PoolSize
    /\ dl' = [dl EXCEPT !.tasks[i].st = "fetching", !.inflight = dl.inflight + 1]
    /\ UNCHANGED <<session, li_at, files, ctl, disk>>

\* the loop body without its "except Exception"
Caught_Nothing(res) == res # "exc_empty"

\* try ... except Exception around client.get and the write of the file
Caught(res) == TRUE

\* last_error or "Failed to download HD image"
FinalError(last_error) ==
    IF last_error # "" THEN last_error ELSE "Failed to download HD image"

\* client.get(candidate_url) returns or raises, res being what it does ("ok" = status
\* 200 and more than 700 bytes).  No fetch completes before every task of the gather
\* has started.  An exception that left the task would leave asyncio.gather.
Fetched(i, res) ==
    /\ dl.pc = "gather"
    /\ dl.tasks[i].st = "fetching"
    /\ AllStarted
    /\ \A j \in 1..Len(dl.tasks) : AtAwait(j)
    /\ LET t == dl.tasks[i]
           n == t.tries + 1
       IN IF ~Caught(res)
          THEN /\ files' = files
               /\ dl' = [dl EXCEPT !.pc = "raised", !.tasks[i].tries = n,
                                   !.tasks[i].last = res]
          ELSE IF res = "ok"
          THEN /\ files' = files \cup {t.target}
               /\ dl' = [dl EXCEPT !.profiles[i].image_downloaded = TRUE,
                                   !.profiles[i].image_filename = t.target,
                                   !.profiles[i].image_path = t.target,
                                   !.profiles[i].high_res_image_url = Head(t.cands),
                                   !.profiles[i].error = "",
                                   !.tasks[i].st = "done",
                                   !.tasks[i].tries = n,
                                   !.tasks[i].last = res,
                                   !.inflight = dl.inflight - 1,
                                   !.writers = Append(dl.writers, <<t.target, i>>)]
          ELSE /\ files' = files
               /\ IF Len(t.cands) > 1
                  THEN dl' = [dl EXCEPT !.tasks[i].cands = Tail(t.cands),
                                        !.tasks[i].tries = n,
                                        !.tasks[i].last = res,
                                        !.tasks[i].last_error = FetchError(res)]
                  ELSE dl' = [dl EXCEPT !.profiles[i].error = FinalError(FetchError(res)),
                                        !.tasks[i].st = "done",
                                        !.tasks[i].cands = <<>>,
                                        !.tasks[i].tries = n,
                                        !.tasks[i].last = res,
                                        !.tasks[i].last_error = FetchError(res),
                                        !.inflight = dl.inflight - 1]
    /\ UNCHANGED <<session, li_at, ctl, disk>>

\* asyncio.gather returns when every task is done
GatherDone ==
    /\ dl.pc = "gather"
    /\ \A i \in 1..Len(dl.tasks) : dl.tasks[i].st = "done"
    /\ dl' = [dl EXCEPT !.pc = "done"]
    /\ UNCHANGED <<session, li_at, files, ctl, disk>>

DlNext ==
    \/ \E i \in 1..Len(dl.tasks) : Prepare(i)
    \/ \E i \in 1..Len(dl.tasks) : Acquire(i)
    \/ \E i \in 1..Len(dl.tasks), res \in FetchResults : Fetched(i, res)
    \/ GatherDone

DlSpec == DlInit /\ [][DlNext]_vars

\* C7: no two records that end with a downloaded photo have the same destination path,
\* and no file is written by the downloads of two different records.
C7_DistinctPhotoPaths ==
    /\ \A i, j \in 1..Len(dl.profiles) :
          (i # j /\ dl.profiles[i].image_downloaded /\ dl.profiles[j].image_downloaded)
              => dl.profiles[i].image_path # dl.profiles[j].image_path
    /\ \A a, b \in 1..Len(dl.writers) :
          dl.writers[a][1] = dl.writers[b][1] => dl.writers[a][2] = dl.writers[b][2]

\* the outcome fields of a record
OutcomeOf(p) ==
    [downloaded |-> p.image_downloaded, chosen |-> p.high_res_image_url,
     path |-> p.image_path, filename |-> p.image_filename, error |-> p.error]

\* the outcome of a record as a function of the record, of the files present when the
\* step starts and of the record's own fetches (tries of them ended, the latest with last)
OwnOutcome(p, fs, tries, last) ==
    LET cands  == _hd_candidates(p.source_image_url, DefaultHighRes)
        target == ProbePath(fs, ImageBase(p), 1)
    IN IF p.source_image_url = NoUrl
       THEN [downloaded |-> FALSE, chosen |-> NoUrl, path |-> <<>>, filename |-> <<>>,
             error |-> "No public image URL"]
       ELSE IF tries > 0 /\ last = "ok"
       THEN [downloaded |-> TRUE, chosen |-> cands[tries], path |-> target,
             filename |-> target, error |-> ""]
       ELSE [downloaded |-> FALSE, chosen |-> cands[1], path |-> <<>>, filename |-> <<>>,
             error |-> IF tries < Len(cands) THEN ""
                       ELSE IF last = "http" THEN "HTTP"
                       ELSE "Failed to download HD image"]

\* C15: the download step never raises, and at every moment the outcome fields of each
\* record are those determined by the record, the files present at the start and the
\* results of the record's own fetches: the results of the other records play no part.
C15_OutcomesIndependent ==
    /\ dl.pc # "raised"
    /\ \A i \in 1..Len(dl.profiles) :
          Started(i) =>
              OutcomeOf(dl.profiles[i]) =
                  OwnOutcome(dl.profiles[i], dl.files0, dl.tasks[i].tries, dl.tasks[i].last)
    /\ dl.pc = "done" => \A i \in 1..Len(dl.profiles) :
                            dl.profiles[i].image_downloaded \/ dl.profiles[i].error # ""

\* C15 witness: the step has ended with a first record whose every fetch failed (the
\* last one by an exception) and a second record of the same name that was downloaded
C15_Witness ==
    /\ dl.pc = "done"
    /\ Len(dl.profiles) = 2
    /\ dl.profiles[1].name = dl.profiles[2].name
    /\ ~dl.profiles[1].image_downloaded
    /\ dl.tasks[1].tries > 1
    /\ dl.tasks[1].last = "exc_empty"
    /\ dl.profiles[2].image_downloaded

(***************************************************************************)
(* The response parser: _parse_voyager_response and its helpers.  A JSON   *)
(* value is a record tagged by t; an object keeps its members in order, as *)
(* a list of <<key, value>>.  A string is the tuple of its parts, so that   *)
(* "x in s", s.split("?")[0], s.rstrip("/") and s1 + s2 act on the parts.   *)
(***************************************************************************)
JStr(s) == [t |-> "str", s |-> s]
JInt(n) == [t |-> "int", n |-> n]
JNull == [t |-> "null"]
JList(items) == [t |-> "list", items |-> items]
JDict(kv) == [t |-> "dict", kv |-> kv]
Empty == JStr(<<>>)

\* an exception leaving a function
Raised(exc) == [t |-> "raise", exc |-> exc]
IsRaised(v) == v.t = "raise"

\* bool(v)
Truthy(v) == CASE v.t = "str" -> v.s # <<>>
               [] v.t = "int" -> v.n # 0
               [] v.t = "list" -> v.items # <<>>
               [] v.t = "dict" -> v.kv # <<>>
               [] OTHER -> FALSE

\* k in d, d.get(k, default), d.values()
Has(d, k) == \E i \in 1..Len(d.kv) : d.kv[i][1] = k
Get(d, k, default) ==
    IF Has(d, k) THEN d.kv[CHOOSE i \in 1..Len(d.kv) : d.kv[i][1] = k][2] ELSE default
Values(d) == [i \in 1..Len(d.kv) |-> d.kv[i][2]]

\* a or b
OrElse(a, b) == IF IsRaised(a) \/ Truthy(a) THEN a ELSE b

\* the parts of a value that is used as a string
StrOf(v) == IF v.t = "str" THEN v.s ELSE <<>>

\* max(arts, key=lambda a: a.get("width", 0)) over the items from position i on, best
\* being the position of the greatest key so far: a.get on an item that is not an
\* object is an AttributeError, the comparison of a key that is not a number a TypeError
WidthKey(a) == Get(a, "width", JInt(0))
RECURSIVE MaxScan(_, _, _)
MaxScan(items, i, best) ==
    IF i > Len(items) THEN JInt(best)
    ELSE IF items[i].t # "dict" THEN Raised("AttributeError")
    ELSE IF best = 0 THEN MaxScan(items, i + 1, i)
    ELSE IF WidthKey(items[i]).t # "int" \/ WidthKey(items[best]).t # "int"
         THEN Raised("TypeError")
    ELSE IF WidthKey(items[i]).n > WidthKey(items[best]).n
         THEN MaxScan(items, i + 1, i)
         ELSE MaxScan(items, i + 1, best)

\* _extract_vector_image(vi)
_extract_vector_image(vi) ==
    IF vi.t # "dict" THEN Empty
    ELSE LET root == Get(vi, "rootUrl", Empty)
             arts == Get(vi, "artifacts", JList(<<>>))
             best == IF arts.t = "list" THEN MaxScan(arts.items, 1, 0)
                     ELSE IF arts.t = "int" THEN Raised("TypeError")
                     ELSE Raised("AttributeError")
             seg  == Get(arts.items[best.n], "fileIdentifyingUrlPathSegment", Empty)
         IN IF ~(Truthy(root) /\ Truthy(arts)) THEN Empty
            ELSE IF IsRaised(best)
                 \* except (TypeError, ValueError): any other exception leaves the function
                 THEN (IF best.exc \notin {"TypeError", "ValueError"} THEN best ELSE Empty)
            ELSE IF Truthy(seg) THEN JStr(StrOf(root) \o StrOf(seg))
            ELSE Empty

\* photo descriptors
RootUrl == JStr(<<"https://media.licdn.com/x/">>)
Art(w, seg) == JDict(<< <<"width", JInt(w)>>,
                        <<"fileIdentifyingUrlPathSegment", JStr(<<seg>>)>> >>)
VI(root, arts) == JDict(<< <<"rootUrl", root>>, <<"artifacts", JList(arts)>> >>)

Descriptors ==
    << VI(RootUrl, <<Art(100, "100"), Art(400, "400"), Art(800, "800")>>),
       VI(RootUrl, <<Art(800, "800"), Art(100, "100"), Art(400, "400")>>),
       VI(RootUrl, <<Art(200, "200a"), Art(200, "200b")>>),
       VI(RootUrl, <<JDict(<< <<"fileIdentifyingUrlPathSegment", JStr(<<"nowidth">>)>> >>),
                     Art(100, "100")>>),
       VI(RootUrl, <<>>),
       JDict(<< <<"rootUrl", RootUrl>> >>),
       JDict(<< <<"artifacts", JList(<<Art(100, "100")>>)>> >>),
       JStr(<<"https://media.licdn.com/x/photo.jpg">>),
       JNull,
       VI(RootUrl, <<JDict(<< <<"width", JInt(800)>> >>), Art(100, "100")>>),
       VI(RootUrl, <<Art(100, "100"), JNull>>) >>

\* the first photo of a list of descriptors: url = _extract_vector_image(vi);
\* if url: return url -- an exception of the helper leaves the caller
RECURSIVE FirstPhoto(_)
FirstPhoto(vis) ==
    IF vis = <<>> THEN Empty
    ELSE IF IsRaised(_extract_vector_image(Head(vis))) \/ Truthy(_extract_vector_image(Head(vis)))
         THEN _extract_vector_image(Head(vis))
         ELSE FirstPhoto(Tail(vis))

\* for ref_key in keys: ref = pp.get(ref_key); if isinstance(ref, dict):
\*     ... ref.get("vectorImage") or {}
RefImages(pp, keys) ==
    LET hit == SelectSeq(keys, LAMBDA k : Get(pp, k, JNull).t = "dict")
    IN [i \in 1..Len(hit) |-> OrElse(Get(Get(pp, hit[i], JNull), "vectorImage", JNull),
                                     JDict(<<>>))]

RefKeys4 == <<"displayImageReferenceResolutionResult", "displayImageReference",
              "displayImageWithFrameReference", "displayImageWithFrameReferenceUnion">>

\* _er_photo_included(entity)
_er_photo_included(entity) ==
    LET pic == OrElse(Get(entity, "picture", JNull), JDict(<<>>))
        pp  == Get(entity, "profilePicture", JNull)
        f1  == IF pic.t = "dict"
               THEN <<OrElse(Get(pic, "vectorImage", JNull),
                             OrElse(Get(pic, "com.linkedin.common.VectorImage", JNull), pic))>>
               ELSE <<>>
        f2  == IF pp.t = "dict" THEN RefImages(pp, RefKeys4) ELSE <<>>
        f3  == <<OrElse(Get(entity, "vectorImage", JNull), JDict(<<>>))>>
    IN FirstPhoto(f1 \o f2 \o f3)

\* _er_text(er, key)
_er_text(er, key) ==
    LET v == Get(er, key, JNull)
    IN IF v.t = "dict" THEN OrElse(Get(v, "text", Empty), Get(v, "accessibilityText", Empty))
       ELSE IF v.t = "str" THEN v ELSE Empty

\* The URN-to-photo cache: a function from the URNs it holds to their photo URL.
CachePut(cache, urn, photo) ==
    [u \in (DOMAIN cache) \cup {urn} |-> IF u = urn THEN photo ELSE cache[u]]

\* What _er_photo_er tries for one element of image.attributes, in order: descriptors
\* (kind "vi") and references to the cache (kind "urn")
AttrCands(attr) ==
    LET dd == OrElse(Get(attr, "detailData", JNull),
                     OrElse(Get(attr, "detailDataUnion", JNull), JDict(<<>>)))
        vi == Get(dd, "vectorImage", JNull)
        pp == OrElse(Get(dd, "profilePicture", JNull), JDict(<<>>))
        RefKeys3 == <<"displayImageReferenceResolutionResult", "displayImageReference",
                      "profilePicture">>
        PictureKeys == <<"nonEntityProfilePicture", "profilePictureWithoutFrame",
                         "profilePictureWithRingStatus">>
        ViCand(v) == [kind |-> "vi", v |-> v]
        UrnCand(v) == [kind |-> "urn", v |-> v]
        hit == SelectSeq(PictureKeys, LAMBDA k : Get(dd, k, JNull).t = "dict")
        Inner(r) == OrElse(Get(r, "profilePicture", JNull), JDict(<<>>))
        Of(r) == (IF Inner(r).t = "dict"
                  THEN [i \in 1..Len(RefImages(Inner(r), RefKeys4)) |->
                           ViCand(RefImages(Inner(r), RefKeys4)[i])]
                  ELSE <<>>) \o <<UrnCand(Get(r, "*profile", Empty))>>
        RECURSIVE Cat(_)
        Cat(ks) == IF ks = <<>> THEN <<>>
                   ELSE Of(Get(dd, Head(ks), JNull)) \o Cat(Tail(ks))
    IN (IF vi.t = "dict" THEN <<ViCand(vi)>> ELSE <<>>)
       \o (IF pp.t = "dict"
           THEN [i \in 1..Len(RefImages(pp, RefKeys3)) |-> ViCand(RefImages(pp, RefKeys3)[i])]
           ELSE <<>>)
       \o Cat(hit)

RECURSIVE FirstCand(_, _)
FirstCand(cands, cache) ==
    IF cands = <<>> THEN Empty
    ELSE IF Head(cands).kind = "vi"
         THEN (IF IsRaised(_extract_vector_image(Head(cands).v))
                  \/ Truthy(_extract_vector_image(Head(cands).v))
               THEN _extract_vector_image(Head(cands).v)
               ELSE FirstCand(Tail(cands), cache))
         ELSE IF Truthy(Head(cands).v) /\ StrOf(Head(cands).v) \in DOMAIN cache
              THEN JStr(cache[StrOf(Head(cands).v)])
              ELSE FirstCand(Tail(cands), cache)

\* _er_photo_er(er, urn_photos): er["image"]["attributes"] missing is a KeyError or a
\* TypeError, which the function turns into ""
_er_photo_er(er, cache) ==
    LET image == Get(er, "image", JNull)
        attrs == IF image.t = "dict" THEN Get(image, "attributes", JNull) ELSE JNull
        RECURSIVE All(_)
        All(as) == IF as = <<>> THEN <<>> ELSE AttrCands(Head(as)) \o All(Tail(as))
    IN IF attrs.t = "list" THEN FirstCand(All(attrs.items), cache) ELSE Empty

\* href.split("?")[0] and s.rstrip("/")
RECURSIVE SplitQ(_)
SplitQ(s) == IF s = <<>> \/ Head(s) = "?" THEN <<>> ELSE <<Head(s)>> \o SplitQ(Tail(s))
RECURSIVE RStripSlash(_)
RStripSlash(s) ==
    IF s # <<>> /\ s[Len(s)] = "/" THEN RStripSlash(SubSeq(s, 1, Len(s) - 1)) ELSE s

\* the canonical form without the removal of the trailing slash
Canon_KeepSlash(href) == SplitQ(href)

\* clean = href.split("?")[0].rstrip("/")
Canon(href) == RStripSlash(SplitQ(href))

\* "linkedin.com/in/" in href, "EntityResultViewModel" in etype
Contains(v, part) == part \in Range(StrOf(v))

ErDepth == 15
NavDepth == 12

\* results.append({...}) and seen.add(clean); by is the strategy that appends
AddResult(acc, href, nom, titre, photo, by) ==
    [acc EXCEPT !.results = Append(acc.results, Tup(href, StrOf(nom), StrOf(titre), StrOf(photo))),
                !.src = Append(acc.src, by),
                !.seen = acc.seen \cup {href}]

\* Strategy 1: walk_er(node, depth).  acc holds results, seen and the exception raised.
RECURSIVE walk_er(_, _, _, _)
RECURSIVE WalkErAll(_, _, _, _)
walk_er(node, depth, acc, cache) ==
    IF acc.raised # "" \/ depth > ErDepth \/ node.t \notin {"dict", "list"} THEN acc
    ELSE IF node.t = "list" THEN WalkErAll(node.items, depth + 1, acc, cache)
    ELSE LET is_ervm == Contains(Get(node, "$type", Empty), "EntityResultViewModel")
             er    == IF Has(node, "entityResult")
                      THEN (IF Get(node, "entityResult", JNull).t = "dict"
                            THEN Get(node, "entityResult", JNull) ELSE JNull)
                      ELSE IF is_ervm THEN node ELSE JNull
             use   == er.t = "dict" /\ Truthy(er)
             href  == Get(er, "navigationUrl", Empty)
             nom   == _er_text(er, "title")
             titre == OrElse(_er_text(er, "primarySubtitle"), _er_text(er, "secondarySubtitle"))
             photo == _er_photo_er(er, cache)
             acc1  == IF ~use THEN acc
                      ELSE IF IsRaised(photo) THEN [acc EXCEPT !.raised = photo.exc]
                      ELSE IF Truthy(href) /\ Contains(href, "linkedin.com/in/")
                              /\ Canon(StrOf(href)) \notin acc.seen
                           THEN AddResult(acc, Canon(StrOf(href)), nom, titre, photo, 1)
                           ELSE acc
         IN IF acc1.raised # "" \/ (use /\ is_ervm) THEN acc1
            ELSE WalkErAll(Values(node), depth + 1, acc1, cache)
WalkErAll(items, depth, acc, cache) ==
    IF items = <<>> THEN acc
    ELSE WalkErAll(Tail(items), depth, walk_er(Head(items), depth, acc, cache), cache)

\* the second pass of strategy 1 over the EntityResultViewModel entities of included
RECURSIVE WalkIncluded(_, _, _)
WalkIncluded(items, acc, cache) ==
    IF items = <<>> THEN acc
    ELSE WalkIncluded(Tail(items),
                      IF Head(items).t = "dict"
                         /\ Contains(Get(Head(items), "$type", Empty), "EntityResultViewModel")
                      THEN walk_er(Head(items), 0, acc, cache) ELSE acc,
                      cache)

\* the pre-scan without its test of photo
Cacheable_Always(photo) == TRUE

\* if photo: urn_photos[urn] = photo
Cacheable(photo) == Truthy(photo)

\* the pre-scan of included
RECURSIVE PreScan(_, _)
PreScan(items, cache) ==
    IF items = <<>> THEN [cache |-> cache, raised |-> ""]
    ELSE LET entity == Head(items)
             urn    == IF entity.t = "dict" THEN Get(entity, "entityUrn", Empty) ELSE Empty
             photo  == _er_photo_included(entity)
         IN IF entity.t # "dict" \/ ~Truthy(urn) THEN PreScan(Tail(items), cache)
            ELSE IF IsRaised(photo) THEN [cache |-> cache, raised |-> photo.exc]
            ELSE IF Cacheable(photo)
                 THEN PreScan(Tail(items), CachePut(cache, StrOf(urn), StrOf(photo)))
                 ELSE PreScan(Tail(items), cache)

ProfilePrefix == <<"https://www.", "linkedin.com/in/">>

\* Strategy 2: the profile entities of included
RECURSIVE Strategy2(_, _, _)
Strategy2(items, acc, cache) ==
    IF items = <<>> \/ acc.raised # "" THEN acc
    ELSE LET entity == Head(items)
             etype  == Get(entity, "$type", Empty)
             is_profile == \/ Contains(etype, "MiniProfile")
                           \/ Contains(etype, "dash.identity.profile.Profile")
                           \/ Contains(etype, "voyager.identity.profile.Profile")
             pub    == OrElse(Get(entity, "publicIdentifier", JNull),
                              Get(entity, "vanityName", Empty))
             href   == ProfilePrefix \o StrOf(pub)
             full   == JStr(Strip(StrOf(Get(entity, "firstName", Empty)) \o <<" ">>
                                  \o StrOf(Get(entity, "lastName", Empty))))
             nom    == OrElse(full, Get(entity, "name", Empty))
             titre  == OrElse(Get(entity, "occupation", JNull),
                              OrElse(Get(entity, "headline", JNull), Empty))
             urn    == StrOf(Get(entity, "entityUrn", Empty))
             photo  == IF urn \in DOMAIN cache /\ cache[urn] # <<>> THEN JStr(cache[urn])
                       ELSE _er_photo_included(entity)
         IN IF entity.t # "dict" \/ ~is_profile
               \/ ~Truthy(pub) \/ href \in acc.seen
            THEN Strategy2(Tail(items), acc, cache)
            ELSE IF IsRaised(photo) THEN [acc EXCEPT !.raised = photo.exc]
            ELSE Strategy2(Tail(items), AddResult(acc, href, nom, titre, photo, 2), cache)

\* Strategy 3: walk_nav(node, depth)
RECURSIVE walk_nav(_, _, _, _)
RECURSIVE WalkNavAll(_, _, _, _)
walk_nav(node, depth, acc, cache) ==
    IF acc.raised # "" \/ depth > NavDepth \/ node.t \notin {"dict", "list"} THEN acc
    ELSE IF node.t = "list" THEN WalkNavAll(node.items, depth + 1, acc, cache)
    ELSE LET nav   == Get(node, "navigationUrl", Empty)
             photo == _er_photo_er(node, cache)
         IN IF Truthy(nav) /\ Contains(nav, "linkedin.com/in/")
            THEN (IF Canon(StrOf(nav)) \in acc.seen THEN acc
                  ELSE IF IsRaised(photo) THEN [acc EXCEPT !.raised = photo.exc]
                  ELSE AddResult(acc, Canon(StrOf(nav)),
                                 OrElse(_er_text(node, "title"), _er_text(node, "name")),
                                 OrElse(_er_text(node, "primarySubtitle"),
                                        _er_text(node, "subtitle")),
                                 photo, 3))
            ELSE WalkNavAll(Values(node), depth + 1, acc, cache)
WalkNavAll(items, depth, acc, cache) ==
    IF items = <<>> THEN acc
    ELSE WalkNavAll(Tail(items), depth, walk_nav(Head(items), depth, acc, cache), cache)

\* bytes that json.loads rejects
InvalidJson == [t |-> "invalid"]

\* _parse_voyager_response(body_bytes, urn_photos): the list returned (results, with in
\* src the strategy that appended each tuple), the cache as the call leaves it, and the
\* exception that left the call ("" when it returned)
_parse_voyager_response(body, urn_photos) ==
    IF body = InvalidJson
    THEN [results |-> <<>>, src |-> <<>>, cache |-> urn_photos, raised |-> ""]
    ELSE LET Included(data) == IF data.t = "dict" THEN Get(data, "included", JNull) ELSE JNull
             List(included) == IF included.t = "list" THEN included.items ELSE <<>>
             Start(pre) == [results |-> <<>>, src |-> <<>>, seen |-> {}, raised |-> pre.raised]
             \* return results; an exception leaves the function with the cache as written
             Return(a3, cache) == [results |-> IF a3.raised # "" THEN <<>> ELSE a3.results,
                                   src |-> IF a3.raised # "" THEN <<>> ELSE a3.src,
                                   cache |-> cache, raised |-> a3.raised]
             \* if not results: walk_nav(data)
             Third(a2, cache) == IF a2.results = <<>> THEN walk_nav(body, 0, a2, cache) ELSE a2
             Strategies(inc, pre) ==
                 Return(Third(Strategy2(inc,
                                        WalkIncluded(inc, walk_er(body, 0, Start(pre), pre.cache),
                                                     pre.cache),
                                        pre.cache),
                              pre.cache),
                        pre.cache)
             Scan(inc) == Strategies(inc, PreScan(inc, urn_photos))
         IN Scan(List(Included(body)))

(***************************************************************************)
(* The payloads explored, and the handling of a sequence of responses by   *)
(* the interception handler with the cache of the session.                 *)
(***************************************************************************)
MaxResponses == 2   \* most responses handled in one session

\* The bodies the handler is given: objects built as the parser reads them
Payloads ==
    LET
        Text(s) == JDict(<< <<"text", JStr(<<s>>)>> >>)
        Url(parts) == JStr(ProfilePrefix \o parts)
        CompanyUrl == JStr(<<"https://www.", "linkedin.com/company/", "x">>)
        Urn1 == JStr(<<"urn:li:fsd_profile:", "1">>)
        Urn2 == JStr(<<"urn:li:fsd_profile:", "2">>)
        Photo1 == VI(RootUrl, <<Art(100, "100"), Art(400, "400")>>)
        Photo2 == VI(RootUrl, <<Art(200, "200")>>)
        BadPhoto == VI(RootUrl, <<Art(100, "100"), JNull>>)

        \* image.attributes[].detailData of an entity result
        InlineImage(vi) ==
            JDict(<< <<"attributes", JList(<< JDict(<< <<"detailData", JDict(<<
                <<"profilePicture", JDict(<< <<"displayImageReference",
                    JDict(<< <<"vectorImage", vi>> >>)>> >>)>> >>)>> >>) >>)>> >>)
        UrnImage(urn) ==
            JDict(<< <<"attributes", JList(<< JDict(<< <<"detailData", JDict(<<
                <<"nonEntityProfilePicture", JDict(<< <<"*profile", urn>> >>)>> >>)>> >>) >>)>> >>)

        EntityResult(nav, title, image) ==
            JDict(<< <<"entityResult", JDict(<< <<"navigationUrl", nav>>, <<"title", Text(title)>>,
                                                <<"primarySubtitle", Text("eng")>>,
                                                <<"image", image>> >>)>> >>)
        ResultViewModel(nav, title) ==
            JDict(<< <<"$type", JStr(<<"com.linkedin.voyager.dash.search.", "EntityResultViewModel">>)>>,
                     <<"navigationUrl", nav>>, <<"title", Text(title)>> >>)
        MiniProfile(pub, first, urn, picture) ==
            JDict(<< <<"$type", JStr(<<"com.linkedin.voyager.identity.shared.", "MiniProfile">>)>>,
                     <<"publicIdentifier", JStr(<<pub>>)>>, <<"firstName", JStr(<<first>>)>>,
                     <<"lastName", JStr(<<"L">>)>>, <<"occupation", JStr(<<"stu">>)>>,
                     <<"entityUrn", urn>>, <<"picture", picture>> >>)
        PhotoEntity(urn, vi) ==
            JDict(<< <<"entityUrn", urn>>,
                     <<"profilePicture", JDict(<< <<"displayImageReferenceResolutionResult",
                                                    JDict(<< <<"vectorImage", vi>> >>)>> >>)>> >>)
        FlatItem(nav, title) ==
            JDict(<< <<"navigationUrl", nav>>, <<"title", Text(title)>>,
                     <<"primarySubtitle", Text("dev")>> >>)

        Elements(items) == <<"elements", JList(items)>>
        Included(items) == <<"included", JList(items)>>
        Results(items) == <<"results", JList(items)>>
    IN
       << \* 1: an entity result with its photo inline
          JDict(<< Elements(<< EntityResult(Url(<<"a">>), "A1", InlineImage(Photo1)) >>) >>),
          \* 2: a profile entity of included with its picture
          JDict(<< Included(<< MiniProfile("b", "B1", Empty,
                                           JDict(<< <<"vectorImage", Photo2>> >>)) >>) >>),
          \* 3: flat items with a navigationUrl: two forms of one profile, and a company
          JDict(<< Results(<< FlatItem(Url(<<"c", "/", "?", "q">>), "C1"),
                              FlatItem(Url(<<"c">>), "C2"), FlatItem(CompanyUrl, "X") >>) >>),
          \* 4: an entity result and a profile entity of another member
          JDict(<< Elements(<< EntityResult(Url(<<"a">>), "A1", JNull) >>),
                   Included(<< MiniProfile("b", "B1", Empty, JNull) >>) >>),
          \* 5: one profile as three entity results and as a profile entity
          JDict(<< Elements(<< EntityResult(Url(<<"a", "?", "q">>), "A1", JNull),
                               EntityResult(Url(<<"a", "/">>), "A2", JNull),
                               EntityResult(Url(<<"a">>), "A3", JNull) >>),
                   Included(<< MiniProfile("a", "A4", Empty, JNull) >>) >>),
          \* 6: a view model and a profile entity of one profile in included
          JDict(<< Included(<< ResultViewModel(Url(<<"b", "/">>), "B2"),
                               MiniProfile("b", "B1", Empty, JNull) >>) >>),
          \* 7: the photo of a URN, without profile
          JDict(<< Included(<< PhotoEntity(Urn1, Photo1) >>) >>),
          \* 8: another photo of the same URN
          JDict(<< Included(<< PhotoEntity(Urn1, Photo2) >>) >>),
          \* 9: the entity of that URN without photo, as a profile entity
          JDict(<< Included(<< MiniProfile("b", "B1", Urn1, JNull) >>) >>),
          \* 10: an entity result that refers to the URN for its photo
          JDict(<< Elements(<< EntityResult(Url(<<"a">>), "A1", UrnImage(Urn1)) >>) >>),
          \* 11: a body that is not JSON
          InvalidJson,
          \* 12: a list at top level
          JList(<< EntityResult(Url(<<"c">>), "C1", JNull) >>),
          \* 13: a photo whose artifact list holds a null, after a good photo
          JDict(<< Included(<< PhotoEntity(Urn2, Photo2), PhotoEntity(Urn1, BadPhoto) >>),
                   Elements(<< EntityResult(Url(<<"a">>), "A1", JNull) >>) >>) >>

NoCache == [u \in {} |-> <<>>]
NoParse == [results |-> <<>>, src |-> <<>>, cache |-> NoCache, raised |-> ""]

\* the state when _run has registered the handler: both the buffer and the cache empty
ParserInit ==
    /\ prs = [pc |-> "handler", urn_photos |-> NoCache, handled |-> 0, failures |-> 0,
              last |-> [payload |-> 0, readable |-> TRUE, parsed |-> NoParse],
              vi |-> [arg |-> 0, out |-> Empty]]
    /\ voyager_buffer = <<>>
    /\ variant = "scraper"
    /\ li_at = Rep("x", 50)
    /\ max_profiles = MaxCap
    /\ max_stale = DefaultMaxStale
    /\ skip_urls = {}
    /\ pc = "scroll"
    /\ outcome = ""
    /\ netLog = {"launch", "goto"}
    /\ consumed = <<>>
    /\ prev_v = 0
    /\ seen_urls = {}
    /\ profiles = <<>>
    /\ stale = 0
    /\ round_num = 1
    /\ clicked = FALSE
    /\ raw = <<>>
    /\ roundLog = <<>>
    /\ files = {}
    /\ ctl = CtlIdle
    /\ disk = DiskIdle
    /\ dl = DlIdle
    /\ norm = [pc |-> "idle"]
    /\ face = [pc |-> "idle"]

\* the handler without its "except Exception: pass"
Contained_Never(exc) == FALSE

\* except Exception: pass -- every exception of the read or of the parse ends there
Contained(exc) == TRUE

\* on_response for a response that passes the tests of URL, status and content type:
\* body = await response.body() (readable = it does not raise), the parse with the
\* cache of the session, voyager_buffer.extend(parsed); "except Exception: pass"
HandleResponse(i, readable) ==
    /\ prs.pc = "handler"
    /\ prs.vi.arg = 0
    /\ prs.handled < MaxResponses
    /\ LET Handle(parsed) ==
             /\ prs' = [prs EXCEPT !.pc = IF parsed.raised # "" /\ ~Contained(parsed.raised)
                                          THEN "failed" ELSE "handler",
                                   !.urn_photos = parsed.cache,
                                   !.handled = prs.handled + 1,
                                   !.failures = IF parsed.raised # "" THEN prs.failures + 1
                                                ELSE prs.failures,
                                   !.last = [payload |-> i, readable |-> readable,
                                             parsed |-> parsed]]
             /\ voyager_buffer' = IF parsed.raised = "" THEN voyager_buffer \o parsed.results
                                  ELSE voyager_buffer
       IN Handle(IF readable THEN _parse_voyager_response(Payloads[i], prs.urn_photos)
                 ELSE [NoParse EXCEPT !.cache = prs.urn_photos, !.raised = "Error"])
    /\ UNCHANGED <<variant, li_at, max_profiles, max_stale, skip_urls, pc, outcome, netLog,
                   consumed, prev_v, seen_urls, profiles, stale, round_num, clicked, raw,
                   roundLog, files, ctl, disk, dl, norm, face>>

\* _extract_vector_image applied to a descriptor on its own, in a run that handles no response
Resolve(k) ==
    /\ prs.pc = "handler"
    /\ prs.handled = 0
    /\ prs.vi.arg = 0
    /\ prs' = [prs EXCEPT !.vi = [arg |-> k, out |-> _extract_vector_image(Descriptors[k])]]
    /\ UNCHANGED <<variant, li_at, max_profiles, max_stale, skip_urls, pc, outcome, netLog,
                   voyager_buffer, consumed, prev_v, seen_urls, profiles, stale, round_num,
                   clicked, raw, roundLog, files, ctl, disk, dl, norm, face>>

ParserNext ==
    \/ \E i \in 1..Len(Payloads), readable \in BOOLEAN : HandleResponse(i, readable)
    \/ \E k \in 1..Len(Descriptors) : Resolve(k)

ParserSpec == ParserInit /\ [][ParserNext]_vars

(***************************************************************************)
(* Properties of the parser and of the interception handler.               *)
(***************************************************************************)
LastParse == prs.last.parsed
LastPayload == Payloads[prs.last.payload]
Parsed == prs.last.payload # 0 /\ prs.last.readable

\* C16: the strategies are fallbacks of each other -- strategy 2 contributes a tuple
\* only to a result to which strategy 1 contributed none, and strategy 3 only to a
\* result to which neither strategy 1 nor strategy 2 contributed.
C16_StrategiesAreFallbacks ==
    Parsed =>
        \A i, j \in 1..Len(LastParse.src) :
            /\ LastParse.src[i] = 2 => LastParse.src[j] # 1
            /\ LastParse.src[i] = 3 => LastParse.src[j] \notin {1, 2}

\* the objects of a payload that carry a profile navigationUrl, in the order of a
\* depth-first traversal, each with its URL as written and the text of its title
RECURSIVE Mentions(_)
RECURSIVE MentionsAll(_)
Mentions(node) ==
    IF node.t = "list" THEN MentionsAll(node.items)
    ELSE IF node.t # "dict" THEN <<>>
    ELSE LET nav == Get(node, "navigationUrl", Empty)
             own == IF nav.t = "str" /\ "linkedin.com/in/" \in Range(nav.s)
                    THEN << [url |-> nav.s,
                             nom |-> StrOf(Get(Get(node, "title", JDict(<<>>)), "text", Empty))] >>
                    ELSE <<>>
         IN own \o MentionsAll(Values(node))
MentionsAll(items) ==
    IF items = <<>> THEN <<>> ELSE Mentions(Head(items)) \o MentionsAll(Tail(items))

\* a URL without its query string and without trailing slashes
Canonical(url) == RStripSlash(SplitQ(url))

\* C17: the returned list holds at most one tuple per canonical profile URL, every
\* URL in it is canonical (no query string, no trailing slash), and a tuple found
\* through a navigationUrl carries the name of the first object of the payload, in
\* traversal order, whose URL has that canonical form.
C17_OneTuplePerCanonicalUrl ==
    Parsed =>
        LET res == LastParse.results
            ms  == Mentions(LastPayload)
        IN /\ \A i, j \in 1..Len(res) : res[i].href = res[j].href => i = j
           /\ \A i \in 1..Len(res) :
                  /\ "?" \notin Range(res[i].href)
                  /\ res[i].href # <<>> => res[i].href[Len(res[i].href)] # "/"
                  /\ LastParse.src[i] \in {1, 3} =>
                         \E k \in 1..Len(ms) :
                             /\ Canonical(ms[k].url) = res[i].href
                             /\ \A l \in 1..(k - 1) : Canonical(ms[l].url) # res[i].href
                             /\ ms[k].nom = res[i].nom

\* one profile written with a query string, with a trailing slash and bare, and also
\* present as a profile entity, has been parsed into one tuple
C17_Witness ==
    /\ Parsed
    /\ Len(LastParse.results) = 1
    /\ \E k, l \in 1..Len(Mentions(LastPayload)) :
           /\ Mentions(LastPayload)[k].url # Mentions(LastPayload)[l].url
           /\ Canonical(Mentions(LastPayload)[k].url) = Canonical(Mentions(LastPayload)[l].url)
    /\ LastPayload.t = "dict" /\ Truthy(Get(LastPayload, "included", Empty))

\* C18: once the cache maps a URN to a non-empty URL, every later state of the session
\* still maps that URN to a non-empty URL.
C18_CacheKeepsPhotos ==
    [][\A u \in DOMAIN prs.urn_photos :
           prs.urn_photos[u] # <<>> =>
               u \in DOMAIN prs'.urn_photos /\ prs'.urn_photos[u] # <<>>]_vars

\* a response whose entity for a cached URN carries no photo has been parsed
C18_Witness ==
    /\ Parsed
    /\ prs.handled = 2
    /\ LastPayload.t = "dict"
    /\ \E i \in 1..Len(Get(LastPayload, "included", JList(<<>>)).items) :
           LET entity == Get(LastPayload, "included", JList(<<>>)).items[i]
               urn    == StrOf(Get(entity, "entityUrn", Empty))
           IN /\ urn \in DOMAIN prs.urn_photos
              /\ prs.urn_photos[urn] # <<>>
              /\ ~Has(entity, "profilePicture")
              /\ ~Truthy(Get(entity, "picture", JNull))

\* C19: a body that is not JSON parses to the empty list without an exception; a
\* response whose read or parse fails leaves the buffer and the round as they were,
\* and the handler stays in place for the responses that follow.
C19_FailureContained ==
    /\ [](/\ prs.pc = "handler"
          /\ (Parsed /\ LastPayload = InvalidJson) =>
                 LastParse.results = <<>> /\ LastParse.raised = "")
    /\ [][prs'.last.parsed.raised # "" /\ prs'.handled # prs.handled =>
              /\ voyager_buffer' = voyager_buffer
              /\ pc' = pc
              /\ outcome' = outcome]_vars

\* after a response that failed, a later response has been parsed into the buffer
C19_Witness ==
    /\ prs.failures >= 1
    /\ prs.handled = 2
    /\ LastParse.raised = ""
    /\ LastParse.results # <<>>
    /\ voyager_buffer = LastParse.results

\* the width and the path segment of an artifact as the descriptor states them
WidthOf(a) == IF a.t = "dict" /\ Get(a, "width", JInt(0)).t = "int"
              THEN Get(a, "width", JInt(0)).n ELSE 0
SegmentOf(a) == IF a.t = "dict" THEN StrOf(Get(a, "fileIdentifyingUrlPathSegment", Empty))
                ELSE <<>>

\* C20: the resolver never raises; for a descriptor with a root URL and a non-empty
\* artifact list whose widest artifact has a path segment it returns the root URL
\* followed by the segment of an artifact of greatest width; without root URL or
\* without artifacts it returns the empty string.
C20_WidestArtifact ==
    prs.vi.arg # 0 =>
        LET d    == Descriptors[prs.vi.arg]
            out  == prs.vi.out
            root == IF d.t = "dict" THEN Get(d, "rootUrl", Empty) ELSE Empty
            arts == IF d.t = "dict" /\ Get(d, "artifacts", JNull).t = "list"
                    THEN Get(d, "artifacts", JNull).items ELSE <<>>
            wide == {i \in 1..Len(arts) : \A j \in 1..Len(arts) : WidthOf(arts[j]) <= WidthOf(arts[i])}
        IN /\ out.t = "str"
           /\ (StrOf(root) = <<>> \/ arts = <<>>) => out.s = <<>>
           /\ (StrOf(root) # <<>> /\ arts # <<>>
                   /\ \A i \in wide : SegmentOf(arts[i]) # <<>>) =>
                  \E i \in wide : out.s = StrOf(root) \o SegmentOf(arts[i])

(***************************************************************************)
(* Properties of the candidate list of a download.                         *)
(***************************************************************************)
\* C21: when a download task has built its candidate list and has tried none of it,
\* the list has no repeated URL, its upscaled variants (all but the last URL) are in
\* order of strictly decreasing resolution and its last URL is the source URL; the
\* candidates still to try are always the rest of that list, in order.
C21_CandidatesDecreaseToSource ==
    \A i \in 1..Len(dl.tasks) :
        LET t == dl.tasks[i]
            source_url == dl.profiles[i].source_image_url
            full == _hd_candidates(source_url, DefaultHighRes)
        IN /\ (t.st \in {"waiting", "fetching"} /\ t.tries = 0) =>
                  /\ \A k, l \in 1..Len(t.cands) : t.cands[k] = t.cands[l] => k = l
                  /\ t.cands # <<>> /\ t.cands[Len(t.cands)] = source_url
                  /\ \A k, l \in 1..(Len(t.cands) - 1) :
                         k < l => t.cands[k].size > t.cands[l].size
           /\ t.st \in {"waiting", "fetching"} =>
                  t.cands = SubSeq(full, t.tries + 1, Len(full))

(***************************************************************************)
(* LinkedInScraper._normalize_url.  A target is the tuple of its parts:    *)
(* the host with its scheme, "/", "?", " ", and the words between them; a  *)
(* slug that begins with "people" is the part "people" followed by more.   *)
(***************************************************************************)
LinkedIn == "https://www.linkedin.com"

\* the session, the controllers, the downloads and the parser when none of them runs
Quiet ==
    /\ variant = "scraper"
    /\ li_at = Rep("x", 50)
    /\ max_profiles = MaxCap
    /\ max_stale = DefaultMaxStale
    /\ skip_urls = {}
    /\ pc = "scrape"
    /\ outcome = ""
    /\ netLog = {}
    /\ voyager_buffer = <<>>
    /\ consumed = <<>>
    /\ prev_v = 0
    /\ seen_urls = {}
    /\ profiles = <<>>
    /\ stale = 0
    /\ round_num = 0
    /\ clicked = FALSE
    /\ raw = <<>>
    /\ roundLog = <<>>
    /\ files = {}
    /\ ctl = CtlIdle
    /\ disk = DiskIdle
    /\ prs = PrsIdle

Standby == Quiet /\ dl = DlIdle

\* url.split("?", 1)[1]
RECURSIVE AfterQ(_)
AfterQ(s) == IF s = <<>> THEN <<>> ELSE IF Head(s) = "?" THEN Tail(s) ELSE AfterQ(Tail(s))

\* _normalize_url(raw)
_normalize_url(target) ==
    LET \* "/people" in url
        HasPeople(url) == \E i \in 1..(Len(url) - 1) : url[i] = "/" /\ url[i + 1] = "people"
        \* if qs: url += f"?{qs}"
        WithQuery(url, qs) == IF qs # <<>> THEN url \o <<"?">> \o qs ELSE url
        \* if "/people" not in url: url += "/people/"; elif not url.endswith("/"): url += "/"
        WithPeople(url) == IF ~HasPeople(url) THEN url \o <<"/", "people", "/">>
                           ELSE IF url[Len(url)] # "/" THEN url \o <<"/">>
                           ELSE url
        \* if not url.startswith("http"): ...
        WithHost(url) ==
            IF url # <<>> /\ url[1] = LinkedIn THEN url
            ELSE IF Len(url) >= 2 /\ url[1] \in {"company", "school"} /\ url[2] = "/"
                 THEN <<LinkedIn, "/">> \o url
            ELSE IF "/" \notin Range(url) THEN <<LinkedIn, "/", "school", "/">> \o url
            ELSE <<LinkedIn, "/">> \o url
        \* url, qs = url.split("?", 1); url = url.rstrip("/")
        Split(url) == WithQuery(WithPeople(WithHost(RStripSlash(SplitQ(url)))), AfterQ(url))
    IN Split(Strip(target))

\* The targets explored: a bare slug, school/<slug>, company/<slug>, a full URL with
\* and without the listing sub-path, and slugs that begin with "people"; each with and
\* without a trailing slash, a query string and surrounding blanks
Targets ==
    LET Bases == { <<"ensam">>, <<"school", "/", "ensam">>, <<"company", "/", "ms">>,
                   <<LinkedIn, "/", "school", "/", "ensam">>,
                   <<LinkedIn, "/", "school", "/", "ensam", "/", "people">>,
                   <<"people", "cert">>, <<"company", "/", "people", "cert">> }
        Slashes == { <<>>, <<"/">> }
        Queries == { <<>>, <<"?", "k=v">>, <<"?", "k=v", "/">>, <<"?", "k=v", "?", "w">> }
        Blanks  == { <<>>, <<" ">> }
    IN { w \o b \o s \o q \o w : b \in Bases, s \in Slashes, q \in Queries, w \in Blanks }

UrlInit ==
    /\ Standby
    /\ norm \in { [pc |-> "given", target |-> t, out |-> <<>>, again |-> <<>>] : t \in Targets }
    /\ face = [pc |-> "idle"]

\* url = self._normalize_url(entity_url)
Normalize ==
    /\ norm.pc = "given"
    /\ norm' = [norm EXCEPT !.pc = "once", !.out = _normalize_url(norm.target)]
    /\ UNCHANGED <<sessionVars, ctl, disk, dl, prs, face>>

\* the function applied to the URL it returned
Renormalize ==
    /\ norm.pc = "once"
    /\ norm' = [norm EXCEPT !.pc = "twice", !.again = _normalize_url(norm.out)]
    /\ UNCHANGED <<sessionVars, ctl, disk, dl, prs, face>>

UrlNext == Normalize \/ Renormalize

UrlSpec == UrlInit /\ [][UrlNext]_vars

\* C22: the URL returned for a target has a path that ends with the listing sub-path
\* /people/, with one "people" segment only at its end, followed by "?" and the query
\* string of the target when the target has one and by nothing otherwise; the
\* function applied to its own result returns that result.
C22_ListingPathOnce ==
    LET given == Strip(norm.target)
        path  == SplitQ(norm.out)
        n     == Len(path)
    IN /\ norm.pc \in {"once", "twice"} =>
              /\ n >= 4
              /\ SubSeq(path, n - 2, n) = <<"/", "people", "/">>
              /\ ~(n >= 5 /\ SubSeq(path, n - 4, n - 3) = <<"/", "people">>)
              /\ norm.out = path \o (IF "?" \in Range(given) /\ AfterQ(given) # <<>>
                                     THEN <<"?">> \o AfterQ(given) ELSE <<>>)
       /\ norm.pc = "twice" => norm.again = norm.out

(***************************************************************************)
(* FaceIndex (core/face_index.py).  An embedding is a point of a line, in  *)
(* hundredths, so that the distance of two embeddings is the absolute      *)
(* value of their difference; a confidence is in units of 1/FaceTolerance. *)
(* face_recognition is taken to be installed.                              *)
(***************************************************************************)
MaxFaces  == 2      \* longest list of records given to build
MaxTopK   == 2      \* largest top_k given to search
MaxBuilds == 1      \* most calls of build on one index file

FaceTolerance == 55

\* what the photo of a record is: no photo_path, a path without file, a file in which
\* no face is found, a file that cannot be read, a file with the face of an embedding
Photos == { [k |-> "nopath", enc |-> 0], [k |-> "nofile", enc |-> 0],
            [k |-> "noface", enc |-> 0], [k |-> "error", enc |-> 0] }
          \cup { [k |-> "face", enc |-> e] : e \in {12, 55, 61} }

\* the lists of records: record i of a list has the photo path <<"p", i>> unless it has none
RecordLists ==
    UNION { { [i \in 1..n |-> [id |-> i, photo |-> ph[i],
                               photo_path |-> IF ph[i].k = "nopath" THEN <<>> ELSE <<"p", i>>]] :
                ph \in [1..n -> Photos] } : n \in 0..MaxFaces }

\* SearchResult.__init__ with match decided by "<" in place of "<="
SearchResult_Strict(photo_path, distance, profile) ==
    [photo_path |-> photo_path, distance |-> distance,
     confidence |-> IF distance <= FaceTolerance THEN Max(0, FaceTolerance - distance) ELSE 0,
     match |-> distance < FaceTolerance, profile |-> profile]

\* SearchResult.__init__: max(0.0, 1.0 - distance / FACE_TOLERANCE) is
\* Max(0, FaceTolerance - distance) in units of 1/FaceTolerance
SearchResult(photo_path, distance, profile) ==
    [photo_path |-> photo_path, distance |-> distance,
     confidence |-> IF distance <= FaceTolerance THEN Max(0, FaceTolerance - distance) ELSE 0,
     match |-> distance <= FaceTolerance, profile |-> profile]

\* build without "self._entries = []"
Reset_Keep(entries) == entries

\* self._entries = []
Reset(entries) == <<>>

\* the loop of build over the records from position i on: an entry (encs[0], profile,
\* path) for a record whose file exists and shows a face, nothing for the others
RECURSIVE Encode(_, _, _)
Encode(records, i, entries) ==
    IF i > Len(records) THEN entries
    ELSE IF records[i].photo_path = <<>> \/ records[i].photo.k = "nofile"
         THEN Encode(records, i + 1, entries)
    ELSE IF records[i].photo.k \in {"noface", "error"} THEN Encode(records, i + 1, entries)
    ELSE Encode(records, i + 1,
                Append(entries, [enc |-> records[i].photo.enc, profile |-> records[i],
                                 path |-> records[i].photo_path]))

\* pickle.dump(self._entries, f) into a file opened with "wb", and pickle.load
Missing == [t |-> "missing"]
Corrupt == [t |-> "corrupt"]
_save(entries) == [t |-> "pickle", v |-> entries]

\* _load without its "except Exception"
_load_Unguarded(file) ==
    IF file.t = "pickle" THEN [raised |-> "", entries |-> file.v]
    ELSE [raised |-> "UnpicklingError", entries |-> <<>>]

\* _load: the entries of the file, [] when pickle.load raises
_load(file) ==
    IF file.t = "pickle" THEN [raised |-> "", entries |-> file.v]
    ELSE [raised |-> "", entries |-> <<>>]

\* sorted(pairs, key=lambda x: x[0]): stable, a pair goes behind the pairs before it
\* that have a key at most its own
RECURSIVE SortedByKey(_)
SortedByKey(pairs) ==
    IF pairs = <<>> THEN <<>>
    ELSE LET Insert(rest, last) ==
                 LET k == Cardinality({j \in 1..Len(rest) : rest[j][1] <= last[1]})
                 IN SubSeq(rest, 1, k) \o <<last>> \o SubSeq(rest, k + 1, Len(rest))
         IN Insert(SortedByKey(SubSeq(pairs, 1, Len(pairs) - 1)), pairs[Len(pairs)])

\* the pairs taken in the order of the index
Ranked_Unsorted(pairs) == pairs

\* ranked = sorted(zip(distances, self._entries), key=lambda x: x[0])
Ranked(pairs) == SortedByKey(pairs)

\* face_recognition.face_distance(known_encs, query_enc) zipped with the entries
Distances(entries, query_enc) ==
    [i \in 1..Len(entries) |->
        << IF entries[i].enc >= query_enc THEN entries[i].enc - query_enc
           ELSE query_enc - entries[i].enc,
           entries[i] >>]

\* search(source, top_k) for a source in which a face of embedding query_enc is found
search(entries, query_enc, top_k) ==
    LET Results(ranked) ==
            [i \in 1..Min(top_k, Len(ranked)) |->
                SearchResult(ranked[i][2].path, ranked[i][1], ranked[i][2].profile)]
    IN Results(Ranked(Distances(entries, query_enc)))

\* an index file left by an earlier build
OldEntries == << [enc |-> 12, profile |-> [id |-> 7, photo |-> [k |-> "face", enc |-> 12],
                                           photo_path |-> <<"p", 7>>],
                  path |-> <<"p", 7>>] >>

FaceInit ==
    /\ Standby
    /\ norm = [pc |-> "idle"]
    /\ face \in { [pc |-> "none", file |-> f, found |-> f.t, entries |-> <<>>, builds |-> 0,
                   given |-> <<>>, before |-> <<>>, ret |-> [op |-> ""]] :
                   f \in {Missing, Corrupt, _save(OldEntries)} }

\* FaceIndex(index_path), for the first time or again over the same file
Construct ==
    /\ face.pc \in {"none", "ready"}
    /\ face' = [face EXCEPT
                  !.pc = IF face.file # Missing /\ _load(face.file).raised # ""
                         THEN "raised" ELSE "ready",
                  !.entries = IF face.file = Missing THEN <<>>
                              ELSE _load(face.file).entries,
                  !.before = face.entries,
                  !.ret = [op |-> "init"]]
    /\ UNCHANGED <<sessionVars, ctl, disk, dl, prs, norm>>

\* build(profiles): the entries are replaced, saved, and their number returned
Build(records) ==
    /\ face.pc = "ready"
    /\ face.builds < MaxBuilds
    /\ LET Done(entries) ==
              face' = [face EXCEPT !.entries = entries, !.file = _save(entries),
                                   !.builds = face.builds + 1, !.given = records,
                                   !.before = face.entries,
                                   !.ret = [op |-> "build",
                                            indexed |-> Len(entries) - Len(Reset(face.entries))]]
       IN Done(Encode(records, 1, Reset(face.entries)))
    /\ UNCHANGED <<sessionVars, ctl, disk, dl, prs, norm>>

\* search(source, top_k): ValueError on an empty index, [] when the source shows no face
Search(query, top_k) ==
    /\ face.pc = "ready"
    /\ face' = [face EXCEPT
                  !.ret = IF face.entries = <<>>
                          THEN [op |-> "search", raised |-> "ValueError", query |-> query,
                                top_k |-> top_k, results |-> <<>>]
                          ELSE [op |-> "search", raised |-> "", query |-> query,
                                top_k |-> top_k,
                                results |-> IF query.k = "face"
                                            THEN search(face.entries, query.enc, top_k)
                                            ELSE <<>>]]
    /\ UNCHANGED <<sessionVars, ctl, disk, dl, prs, norm>>

FaceNext ==
    \/ Construct
    \/ \E records \in RecordLists : Build(records)
    \/ \E query \in { [k |-> "face", enc |-> 0], [k |-> "noface", enc |-> 0] },
          top_k \in 1..MaxTopK : Search(query, top_k)

FaceSpec == FaceInit /\ [][FaceNext]_vars

\* the distance of entry j of the index to the query of the last search
DistanceOf(j) ==
    IF face.entries[j].enc >= face.ret.query.enc
    THEN face.entries[j].enc - face.ret.query.enc
    ELSE face.ret.query.enc - face.entries[j].enc

\* C23: a search with top_k >= 1 over a non-empty index, for a source that shows a
\* face, returns exactly min(top_k, size of the index) results; they are entries of the
\* index with the smallest distances, in non-decreasing order of distance, entries at
\* the same distance in the order of the index, so a repeated call returns the same list.
C23_NearestFirst ==
    (face.ret.op = "search" /\ face.ret.raised = "" /\ face.ret.query.k = "face") =>
        LET res == face.ret.results
            n   == Len(face.entries)
        IN /\ Len(res) = Min(face.ret.top_k, n)
           /\ \A i \in 1..Len(res) :
                 \E j \in 1..n : /\ res[i].profile = face.entries[j].profile
                                 /\ res[i].photo_path = face.entries[j].path
                                 /\ res[i].distance = DistanceOf(j)
           /\ \A i, l \in 1..Len(res) :
                 i < l => /\ res[i].distance <= res[l].distance
                          /\ res[i].profile # res[l].profile
                          /\ res[i].distance = res[l].distance =>
                                 res[i].profile.id < res[l].profile.id
           /\ \A j \in 1..n :
                 (\A i \in 1..Len(res) : res[i].profile # face.entries[j].profile) =>
                     \A i \in 1..Len(res) : res[i].distance <= DistanceOf(j)

\* a search for the single nearest entry of an index whose nearest entry is its last
C23_Witness ==
    /\ face.ret.op = "search" /\ face.ret.raised = "" /\ face.ret.query.k = "face"
    /\ face.ret.top_k = 1
    /\ Len(face.entries) = 2
    /\ DistanceOf(1) > DistanceOf(2)
    /\ Len(face.ret.results) = 1
    /\ face.ret.results[1].distance = DistanceOf(2)

\* C24: a SearchResult is a match exactly when its distance is at most the threshold;
\* its confidence is 0 above the threshold and 1 - distance/threshold at or below it
\* (FaceTolerance - distance in units of 1/FaceTolerance), lies in [0, 1], and never
\* grows with the distance.
C24_MatchAtThreshold ==
    face.ret.op = "search" =>
        \A i \in 1..Len(face.ret.results) :
            LET r == face.ret.results[i]
            IN /\ r.match <=> r.distance <= FaceTolerance
               /\ r.distance > FaceTolerance => r.confidence = 0
               /\ r.distance <= FaceTolerance => r.confidence = FaceTolerance - r.distance
               /\ r.confidence >= 0 /\ r.confidence <= FaceTolerance
               /\ \A l \in 1..Len(face.ret.results) :
                     r.distance <= face.ret.results[l].distance =>
                         r.confidence >= face.ret.results[l].confidence

\* results at a distance below, at and above the threshold
C24_Witness ==
    /\ face.ret.op = "search"
    /\ Len(face.ret.results) = 2
    /\ face.ret.results[1].distance = FaceTolerance
    /\ face.ret.results[1].match
    /\ face.ret.results[1].confidence = 0
    /\ face.ret.results[2].distance > FaceTolerance
    /\ ~face.ret.results[2].match

\* the records of the last build that have a photo file showing a face
Indexable == SelectSeq(face.given, LAMBDA r : r.photo.k = "face")

\* C25: after build(records) the index holds exactly one entry for each record that has
\* an existing photo with a detected face, in the order of the records, and nothing
\* from before the call; the count returned is the number of entries and the file
\* holds the same list.
C25_BuildReplaces ==
    face.ret.op = "build" =>
        /\ Len(face.entries) = Len(Indexable)
        /\ \A i \in 1..Len(face.entries) :
              /\ face.entries[i].profile = Indexable[i]
              /\ face.entries[i].path = Indexable[i].photo_path
              /\ face.entries[i].enc = Indexable[i].photo.enc
        /\ face.ret.indexed = Len(face.entries)
        /\ face.file.t = "pickle"
        /\ face.file.v = face.entries

\* a build over an index that had entries, of a record without a face and one with
C25_Witness ==
    /\ face.ret.op = "build"
    /\ face.before # <<>>
    /\ Len(face.given) = 2
    /\ face.given[1].photo.k = "noface"
    /\ face.given[2].photo.k = "face"
    /\ Len(face.entries) = 1
    /\ face.entries[1].profile.id = 2

\* C26: constructing the index over a missing or corrupt file raises nothing and gives
\* an empty index; a build over it replaces the whole file, and constructing the index
\* again from that file gives exactly the entries the build produced.
C26_LoadNeverRaises ==
    /\ face.pc # "raised"
    /\ (face.ret.op = "init" /\ face.builds = 0 /\ face.found \in {"missing", "corrupt"}) =>
           face.entries = <<>>
    /\ (face.ret.op = "build" /\ face.found \in {"missing", "corrupt"}) =>
           face.file = [t |-> "pickle", v |-> face.entries]
    /\ (face.ret.op = "init" /\ face.builds > 0) =>
           /\ face.entries = face.before
           /\ Len(face.entries) = Len(Indexable)

\* an index found corrupt, built with one entry and constructed again from its file
C26_Witness ==
    /\ face.found = "corrupt"
    /\ face.ret.op = "init"
    /\ face.builds = 1
    /\ Len(face.entries) = 1
    /\ face.entries = face.before

\* C28: a label is in the marker of completed segments only when the session of that
\* segment ended without failure: not when it raised, and not when it returned nothing
\* because the navigation failed or the credential was refused.
C28_MarkedOnlyAfterSuccess ==
    \A i \in 1..Len(disk.done) :
        /\ disk.done[i] \notin Range(ctl.raised)
        /\ disk.done[i] \notin Range(ctl.fatal)

\* C29: in the step of a round that merges the DOM extraction, when the round has unseen
\* API tuples every candidate of the round is one of them, with its API name and
\* headline; its photo URL is the API one when that is non-empty, and otherwise the
\* photo URL of a DOM tuple with the same slug, or empty when the DOM has none.  The
\* candidates are DOM tuples only when the round has no unseen API tuple.
C29_ApiBeforeDom ==
    [][(pc = "evaluate" /\ pc' # "evaluate") =>
        LET new == IF variant = "scraper" THEN raw'
                   ELSE [k \in 1..(Len(profiles') - Len(profiles)) |->
                            LET p == profiles'[Len(profiles) + k]
                            IN Tup(p.url, p.nom, p.titre, p.photo_url)]
            NameOf(item) == IF variant = "scraper" THEN item.nom ELSE Strip(item.nom)
            DomPhotos(dom, href) ==
                {dom[j].photo_url : j \in {l \in 1..Len(dom) : dom[l].href # <<>>
                                                                /\ dom[l].href[2] = href[2]}}
        IN \E dom \in DomLists :
              \A k \in 1..Len(new) :
                 IF raw # <<>>
                 THEN \E i \in 1..Len(raw) :
                         /\ new[k].href = raw[i].href
                         /\ new[k].nom = NameOf(raw[i])
                         /\ new[k].titre = raw[i].titre
                         /\ raw[i].photo_url # "" => new[k].photo_url = raw[i].photo_url
                         /\ raw[i].photo_url = "" =>
                               \/ new[k].photo_url \in DomPhotos(dom, raw[i].href)
                               \/ new[k].photo_url = "" /\ DomPhotos(dom, raw[i].href) \subseteq {""}
                 ELSE \E j \in 1..Len(dom) :
                         /\ new[k].href = dom[j].href
                         /\ new[k].nom = NameOf(dom[j])
                         /\ new[k].titre = dom[j].titre
                         /\ new[k].photo_url = dom[j].photo_url]_vars

\* a round whose two API tuples have the slug of a DOM tuple with a photo: the one
\* without photo has taken the DOM photo, the other has kept its own
C29_Witness ==
    /\ pc = "download"
    /\ variant = "scraper"
    /\ Len(raw) = 2
    /\ raw[1].titre = "t1" /\ raw[1].photo_url = "da"
    /\ raw[2].nom = <<"b">> /\ raw[2].titre = "t2" /\ raw[2].photo_url = "pa"

(***************************************************************************)
(* The round loop as a whole, for its termination.  A round is one step,   *)
(* fed with what the page delivers in it (the fresh slice of the buffer,   *)
(* the DOM extraction, whether the load-more control was clicked, how the  *)
(* photo fetches end).  round_num only feeds log lines and stays at most   *)
(* MaxRounds, so that a loop that goes on forever is a cycle of states.    *)
(***************************************************************************)
\* one pass through the body of "while len(profiles) < self.max_profiles"
Turn(in) ==
    /\ pc = "loop"
    /\ Len(profiles) < max_profiles
    /\ LET End(rr, done, nxt) ==
               /\ seen_urls' = seen_urls \cup Hrefs(rr)
               /\ profiles' = profiles \o done
               /\ files' = files \cup {done[i].photo_path :
                                          i \in {j \in 1..Len(done) : done[j].photo_path # <<>>}}
               /\ netLog' = IF \E i \in 1..Len(done) : done[i].photo_url # ""
                            THEN netLog \cup {"get"} ELSE netLog
               /\ stale' = nxt.stale
               /\ pc' = IF nxt.pc = "close" THEN "close" ELSE "loop"
           Fetch(rr, batch) ==
               End(rr, [i \in 1..Len(batch) |->
                           _dl_photo(files, batch[i], Len(profiles) + i - 1, in.ok)],
                   StaleNext(Len(batch), in.clicked, stale, max_stale))
           Cut(rr) == Fetch(rr, Batch(rr, max_profiles, Len(profiles)))
       IN Cut(RoundRaw(UnseenOf(in.fresh, seen_urls), in.dom, seen_urls))
    /\ round_num' = Min(round_num + 1, MaxRounds)
    /\ clicked' = in.clicked
    /\ UNCHANGED <<params, outcome, voyager_buffer, consumed, prev_v, raw, roundLog, others>>

\* the test of the while fails: the loop is left for browser.close()
Full ==
    /\ pc = "loop"
    /\ Len(profiles) >= max_profiles
    /\ pc' = "close"
    /\ UNCHANGED <<params, outcome, netLog, voyager_buffer, consumed, prev_v, seen_urls,
                   profiles, stale, round_num, clicked, raw, roundLog, files, others>>

LoopInit == Standby /\ norm = [pc |-> "idle"] /\ face = [pc |-> "idle"]

\* what the page can deliver in a round: the rounds above, a click that loads nothing,
\* a click that loads a profile whose photo fetch fails, a DOM-only round
Deliveries ==
    RoundInputs \cup { RoundIn(<<>>, <<>>, TRUE, "ok"),
                       RoundIn(<<TA2>>, <<>>, TRUE, "exc_empty"),
                       RoundIn(<<>>, <<Tup(UC, <<>>, "d3", "")>>, FALSE, "ok") }

LoopNext ==
    \/ ScrapeStart
    \/ Launch
    \/ \E res \in NavResults : Goto(res)
    \/ \E wall \in BOOLEAN : AuthCheck(wall)
    \/ \E in \in Deliveries : Turn(in)
    \/ Full
    \/ Close

\* Every await of the session ends (each wait has a timeout), so the coroutine always
\* takes its next step; which round the page delivers is not constrained.
LoopSpec == LoopInit /\ [][LoopNext]_vars /\ WF_vars(LoopNext)

\* C27: every session that passes the authentication check ends: whatever the page
\* delivers, the round loop is left after finitely many rounds and the browser closed.
C27_SessionTerminates == (pc = "loop") ~> (pc = "returned")

(***************************************************************************)
(* The semaphore of the photo fetches: asyncio.Semaphore(8) of             *)
(* AlumniOSINTPipeline._download_images, asyncio.Semaphore(6) of a round   *)
(* of LinkedInScraper._run.  A task is "new", "waiting" for a permit,      *)
(* "fetching" inside "async with sem" with left candidates still to try,   *)
(* or "done".                                                              *)
(***************************************************************************)
MaxTasks == 9       \* most tasks given to one gather
MaxTries == 2       \* longest candidate list of a task of the pipeline
RoundPool == 6

\* the semaphore hands out a permit whatever its value
Permit_Always(value) == TRUE

\* Semaphore.acquire does not block while the value is positive
Permit(value) == value > 0

PoolInit ==
    /\ Quiet
    /\ norm = [pc |-> "idle"]
    /\ face = [pc |-> "idle"]
    /\ dl \in { [pc |-> "pool", of |-> o, size |-> IF o = "pipeline" THEN PoolSize ELSE RoundPool,
                 value |-> IF o = "pipeline" THEN PoolSize ELSE RoundPool,
                 tries |-> IF o = "pipeline" THEN c ELSE 1,
                 st |-> [i \in 1..n |-> "new"], left |-> [i \in 1..n |-> 0],
                 photo |-> [i \in 1..n |-> i # 2], waited |-> {}] :
                 o \in {"pipeline", "scraper"}, n \in 1..MaxTasks, c \in 1..MaxTries }

\* a task of the gather starts, in list order, and runs up to its first suspension: it
\* ends at once without photo URL, takes a permit when one is free, waits otherwise
Enter(i) ==
    /\ dl.pc = "pool"
    /\ dl.st[i] = "new"
    /\ \A j \in 1..(i - 1) : dl.st[j] # "new"
    /\ dl' = IF ~dl.photo[i] THEN [dl EXCEPT !.st[i] = "done"]
             ELSE IF Permit(dl.value)
                  THEN [dl EXCEPT !.st[i] = "fetching", !.left[i] = dl.tries,
                                  !.value = dl.value - 1]
                  ELSE [dl EXCEPT !.st[i] = "waiting", !.waited = dl.waited \cup {i}]
    /\ UNCHANGED <<sessionVars, ctl, disk, prs, norm, face>>

\* a waiting task is woken with a permit
Wake(i) ==
    /\ dl.pc = "pool"
    /\ dl.st[i] = "waiting"
    /\ Permit(dl.value)
    /\ dl' = [dl EXCEPT !.st[i] = "fetching", !.left[i] = dl.tries, !.value = dl.value - 1]
    /\ UNCHANGED <<sessionVars, ctl, disk, prs, norm, face>>

\* a GET of task i returns or raises (the client has a timeout): the task leaves
\* "async with sem" on success or after its last candidate, and tries the next otherwise
Fetch(i, ok) ==
    /\ dl.pc = "pool"
    /\ dl.st[i] = "fetching"
    /\ \A j \in 1..Len(dl.st) : dl.st[j] # "new"
    /\ dl' = IF ok \/ dl.left[i] = 1
             THEN [dl EXCEPT !.st[i] = "done", !.left[i] = 0, !.value = dl.value + 1]
             ELSE [dl EXCEPT !.left[i] = dl.left[i] - 1]
    /\ UNCHANGED <<sessionVars, ctl, disk, prs, norm, face>>

\* asyncio.gather returns
Gathered ==
    /\ dl.pc = "pool"
    /\ \A i \in 1..Len(dl.st) : dl.st[i] = "done"
    /\ dl' = [dl EXCEPT !.pc = "done"]
    /\ UNCHANGED <<sessionVars, ctl, disk, prs, norm, face>>

PoolNext ==
    \/ \E i \in 1..Len(dl.st) : Enter(i)
    \/ \E i \in 1..Len(dl.st) : Wake(i)
    \/ \E i \in 1..Len(dl.st), ok \in BOOLEAN : Fetch(i, ok)
    \/ Gathered

\* The event loop runs every task that is ready, and every GET ends within the timeout
\* of its client (30 s and 20 s), so a step that is possible is eventually taken.
PoolSpec == PoolInit /\ [][PoolNext]_vars /\ WF_vars(PoolNext)

====
